---------------------------- MODULE Spec2Model ----------------------------
(***************************************************************************)
(* Model of the brainrot-news-reels client: the video manager singleton    *)
(* (frontend/utils/video-manager.ts), the ReelItem cells of the feed       *)
(* screen (frontend/components/reel-item.tsx, frontend/app/(tabs)/         *)
(* index.tsx) and the feed controller hook                                 *)
(* (frontend/hooks/use-reel-feed.ts, frontend/utils/feed.ts,               *)
(* frontend/constants/demo-reels.ts).                                      *)
(***************************************************************************)
EXTENDS Integers, Sequences, FiniteSets, TLC

(***************************************************************************)
(* Bounds of the model.                                                    *)
(***************************************************************************)
\* number of VideoPlayer objects that can be created in one run
NPlayers == 3
\* number of requests (feed fetches, ledger reads) one run may issue
MaxFetches == 4
\* number of loop steps a demo-mode run may take
MaxLoops == 2
\* backend totals a fetch may observe: none, fewer than a page, more than a page
SmallTotal == 2
LargeTotal == 12
\* number of list indices FlatList may render cells for
NCells == 3
\* number of calls of the local watch tracker one run may make
MaxCalls == 3
\* number of calls of API functions one run may make
MaxApiCalls == 2
\* number of runs of provisioning scripts
MaxRuns == 3
\* number of auth calls and navigations one run may make
MaxAuthCalls == 4

(***************************************************************************)
(* Program constants.                                                      *)
(***************************************************************************)
PAGE_SIZE == 10
\* REEL_PLACEHOLDER_DATA.length
NPlaceholders == 5
\* DEMO_VIDEO_SOURCES.length
NDemoVideos == 3
\* the null of activePlayer (player objects are 1..NPlayers)
NoPlayer == 0

\* the null of an item id; every real id is a non-empty string
NoId == << >>

Players == 1..NPlayers

VARIABLES
  \* ---- expo-video player objects
  playing,        \* playing[p]: player p is playing
  muted,          \* muted[p]: the player's muted property
  released,       \* released[p]: the native player was released (disposed)
  \* ---- VideoManager singleton
  activePlayer,   \* this.activePlayer (NoPlayer for null)
  activeItemId,   \* this.activeItemId (NoId for null)
  lastCall,       \* history: the last manager call, with what it saw on entry
  raised          \* history: the last manager call threw to its caller

VARIABLES
  \* ---- useReelFeed: React state
  currentIndex,   \* useState(0)
  feedData,       \* useState([]): the feed list
  isLoading,      \* useState(true)
  hasMore,        \* useState(true)
  isCaughtUp,     \* useState(false)
  error,          \* useState(null)
  offset,         \* useState(0): the pagination cursor
  \* ---- useReelFeed: refs
  isLoadingMore,  \* useRef(false)
  allReels,       \* useRef([]): the stored catalog
  loopCounter,    \* useRef(0)
  \* ---- useReelFeed: environment
  isDemo,         \* isDemoMode(), fixed for the session
  hookMounted,    \* the mount effect (line 41) has run
  hookUnmounted,  \* the component that uses the hook has been unmounted
  pending,        \* the awaited requests that have not resolved yet
  reqCount,       \* number of requests issued so far
  \* ---- useReelFeed: history
  issued,         \* every id that was ever placed in the feed list
  fetched,        \* reels returned by the successful fetches since the last
                  \* initial load resolved
  lastStep        \* the last step of the controller and what it did

VARIABLES
  \* ---- FeedScreen cells (one ReelItem per rendered index)
  cellPlayer,     \* cellPlayer[i]: the player of the mounted cell i, or NoPlayer
  isPaused,       \* isPaused[i]: the cell's useState(false)
  nextPlayer,     \* the next player object useVideoPlayer creates
  \* ---- FeedScreen: history
  lastViewable,   \* the first viewable item of the last viewport event
  latestIndex     \* the index of the first viewable item of the last viewport
                  \* event that had one with an index (NoIndex before any)

VARIABLES
  \* ---- local watch tracker (constants/reels.ts) over AsyncStorage
  stored,         \* the item under WATCHED_REELS_KEY (NoData when absent)
  storageQueue,   \* the storage operations issued and not settled yet, in
                  \* the order of their issue; each belongs to a tracker call
  callCount,      \* number of tracker calls made so far
  \* ---- useReelFeed: ref
  watchedIdsRef,  \* useRef(new Set())
  \* ---- local watch tracker: history
  lastReturn,     \* the tracker call that completed last, with its outcome
  marked,         \* the ids of the completed markReelAsWatched calls
  pristine        \* no storage operation failed and no clearWatchHistory ran

VARIABLES
  \* ---- API client (utils/api.ts) over fetch and AsyncStorage
  userIdItem,     \* the item under USER_ID_KEY (NoData when absent)
  apiCalls,       \* the calls of API functions that have not settled yet
  apiCount,       \* the number of calls made so far
  lastApiStep     \* history: what the last step of the client did

VARIABLES
  \* ---- PostgreSQL server and the provisioning script being run
  server,         \* database, role and privileges the scripts care about
  run,            \* the script being run and its position, or NoRun
  runCount,       \* the number of runs started so far
  lastExit,       \* history: the exit status of the last finished run
  lastRun,        \* history: the last finished run
  provisionedBy   \* history: the scripts that have provisioned the server

VARIABLES
  \* ---- AuthProvider state and the root layout's navigation
  authUser,        \* useState<User | null>(null)
  tempPreferences, \* whether tempPreferences is set (not null)
  authLoading,     \* useState(true): isLoading of the auth context
  timers,          \* the setTimeout callbacks that have not fired yet
  authCount,       \* the number of calls and navigations made so far
  segment,         \* useSegments()[0]
  guardDue,        \* the effect of RootLayoutNav has to run
  redirects,       \* history: redirects since the last change from outside
  lastAuthStep     \* history: what the last step of the provider did

vmVars == <<playing, muted, released, activePlayer, activeItemId, lastCall,
           raised>>

feedVars == <<currentIndex, feedData, isLoading, hasMore, isCaughtUp, error,
              offset, isLoadingMore, allReels, loopCounter, isDemo,
              hookMounted, hookUnmounted, pending, reqCount, issued, fetched,
              lastStep>>

screenVars == <<cellPlayer, isPaused, nextPlayer, lastViewable, latestIndex>>

clientVars == <<userIdItem, apiCalls, apiCount, lastApiStep>>

authVars == <<authUser, tempPreferences, authLoading, timers, authCount,
              segment, guardDue, redirects, lastAuthStep>>

provisionVars == <<server, run, runCount, lastExit, lastRun, provisionedBy>>

ledgerVars == <<stored, storageQueue, callCount, watchedIdsRef, lastReturn,
                marked, pristine>>

\* the API client, the auth provider with the root layout, and the database
\* server that the provisioning scripts act on
outerVars == <<clientVars, provisionVars, authVars>>

\* the feed screen with everything it uses
appVars == <<vmVars, feedVars, screenVars, ledgerVars>>

vars == <<appVars, outerVars>>

(***************************************************************************)
(* Strings.  A string is a sequence of tokens: decimal digits and the      *)
(* literal pieces of the template strings.  Number.toString and template   *)
(* interpolation render a number in decimal.                               *)
(***************************************************************************)
Digit(d) == CASE d = 0 -> "0" [] d = 1 -> "1" [] d = 2 -> "2" [] d = 3 -> "3"
              [] d = 4 -> "4" [] d = 5 -> "5" [] d = 6 -> "6" [] d = 7 -> "7"
              [] d = 8 -> "8" [] d = 9 -> "9"

RECURSIVE toString(_)
toString(n) == IF n < 10 THEN <<Digit(n)>>
               ELSE toString(n \div 10) \o <<Digit(n % 10)>>

(***************************************************************************)
(* VideoManager.  The operations are functions of the manager-and-players  *)
(* state w = [playing, muted, activePlayer, activeItemId]; a control       *)
(* (pause, play, set muted) of a released player throws, and the           *)
(* try/catch around each group of controls swallows it.  Every group acts  *)
(* on one player, so a throw happens at the first control of the group and *)
(* the group changes nothing.  w.threw tells that an exception left the    *)
(* statements run so far: the statements after it are not run.             *)
(***************************************************************************)
World == [playing |-> playing, muted |-> muted,
          activePlayer |-> activePlayer, activeItemId |-> activeItemId,
          threw |-> FALSE]

\* mutant: the controls of the previous player are not wrapped in try/catch
tryPauseMute_uncaught(w, p) ==
  IF released[p] THEN [w EXCEPT !.threw = TRUE]
  ELSE [w EXCEPT !.playing[p] = FALSE, !.muted[p] = TRUE]

\* try { p.pause(); p.muted = true } catch {}
tryPauseMute(w, p) ==
  IF released[p] THEN w
  ELSE [w EXCEPT !.playing[p] = FALSE, !.muted[p] = TRUE]

\* try { p.muted = false; p.play() } catch {}
tryUnmutePlay(w, p) ==
  IF released[p] THEN w
  ELSE [w EXCEPT !.muted[p] = FALSE, !.playing[p] = TRUE]

\* try { p.pause() } catch {}
tryPause(w, p) ==
  IF released[p] THEN w
  ELSE [w EXCEPT !.playing[p] = FALSE]

\* mutant: the early return compares the player, not the item id
setActivePlayer_byPlayer(w, player, itemId) ==
  IF w.activePlayer = player THEN w
  ELSE LET stopped == IF w.activePlayer # NoPlayer /\ w.activePlayer # player
                      THEN tryPauseMute(w, w.activePlayer) ELSE w
       IN [stopped EXCEPT !.activePlayer = player, !.activeItemId = itemId]

\* mutant: the previous player is left as it is
setActivePlayer_noStop(w, player, itemId) ==
  IF w.activeItemId = itemId THEN w
  ELSE [w EXCEPT !.activePlayer = player, !.activeItemId = itemId]

setActivePlayer(w, player, itemId) ==
  IF w.activeItemId = itemId THEN w
  ELSE LET stopped == IF w.activePlayer # NoPlayer /\ w.activePlayer # player
                      THEN tryPauseMute(w, w.activePlayer) ELSE w
       IN IF stopped.threw THEN stopped
          ELSE [stopped EXCEPT !.activePlayer = player, !.activeItemId = itemId]

playActive(w) ==
  IF w.activePlayer # NoPlayer THEN tryUnmutePlay(w, w.activePlayer) ELSE w

pauseActive(w) ==
  IF w.activePlayer # NoPlayer THEN tryPause(w, w.activePlayer) ELSE w

deactivatePlayer(w, player, itemId) ==
  LET stopped == tryPauseMute(w, player)
  IN IF ~stopped.threw /\ stopped.activeItemId = itemId
     THEN [stopped EXCEPT !.activePlayer = NoPlayer, !.activeItemId = NoId]
     ELSE stopped

stopAll(w) ==
  LET stopped == IF w.activePlayer # NoPlayer
                 THEN tryPauseMute(w, w.activePlayer) ELSE w
  IN IF stopped.threw THEN stopped
     ELSE [stopped EXCEPT !.activePlayer = NoPlayer, !.activeItemId = NoId]

\* the new manager-and-players state becomes the state
SetWorld(w) ==
  /\ playing' = w.playing
  /\ muted' = w.muted
  /\ activePlayer' = w.activePlayer
  /\ activeItemId' = w.activeItemId
  /\ raised' = w.threw

\* what a call saw on entry
CallRecord(op, player, itemId) ==
  [op |-> op, player |-> player, itemId |-> itemId,
   wasActiveId |-> activeItemId, wasActivePlayer |-> activePlayer,
   wasAudible |-> {p \in Players : playing[p] /\ ~muted[p]}]

\* item ids a direct caller of the manager passes
CallerItemIds == {toString(1), toString(2)}

InitVM ==
  /\ playing = [p \in Players |-> FALSE]
  /\ muted = [p \in Players |-> TRUE]
  /\ released = [p \in Players |-> FALSE]
  /\ activePlayer = NoPlayer
  /\ activeItemId = NoId
  /\ lastCall = CallRecord("none", NoPlayer, NoId)
  /\ raised = FALSE

SetActivePlayerCall(player, itemId) ==
  /\ SetWorld(setActivePlayer(World, player, itemId))
  /\ lastCall' = CallRecord("setActivePlayer", player, itemId)
  /\ UNCHANGED released
  /\ UNCHANGED <<feedVars, screenVars, ledgerVars, outerVars>>

PlayActiveCall ==
  /\ SetWorld(playActive(World))
  /\ lastCall' = CallRecord("playActive", NoPlayer, NoId)
  /\ UNCHANGED released
  /\ UNCHANGED <<feedVars, screenVars, ledgerVars, outerVars>>

PauseActiveCall ==
  /\ SetWorld(pauseActive(World))
  /\ lastCall' = CallRecord("pauseActive", NoPlayer, NoId)
  /\ UNCHANGED released
  /\ UNCHANGED <<feedVars, screenVars, ledgerVars, outerVars>>

DeactivatePlayerCall(player, itemId) ==
  /\ SetWorld(deactivatePlayer(World, player, itemId))
  /\ lastCall' = CallRecord("deactivatePlayer", player, itemId)
  /\ UNCHANGED released
  /\ UNCHANGED <<feedVars, screenVars, ledgerVars, outerVars>>

StopAllCall ==
  /\ SetWorld(stopAll(World))
  /\ lastCall' = CallRecord("stopAll", NoPlayer, NoId)
  /\ UNCHANGED released
  /\ UNCHANGED <<feedVars, screenVars, ledgerVars, outerVars>>

\* the native resource of a player is released: it stops, and its controls throw
ReleasePlayer(p) ==
  /\ ~released[p]
  /\ released' = [released EXCEPT ![p] = TRUE]
  /\ playing' = [playing EXCEPT ![p] = FALSE]
  /\ lastCall' = CallRecord("release", p, NoId)
  /\ UNCHANGED <<muted, activePlayer, activeItemId, raised>>
  /\ UNCHANGED <<feedVars, screenVars, ledgerVars, outerVars>>

NextVM ==
  \/ \E p \in Players, id \in CallerItemIds : SetActivePlayerCall(p, id)
  \/ PlayActiveCall
  \/ PauseActiveCall
  \/ \E p \in Players, id \in CallerItemIds : DeactivatePlayerCall(p, id)
  \/ StopAllCall
  \/ \E p \in Players : ReleasePlayer(p)

(***************************************************************************)
(* Local watch tracker (constants/reels.ts).  A JavaScript Set is the      *)
(* sequence of its elements in insertion order, without repetition.  The   *)
(* stored item is a string: the JSON text of an array of strings, a        *)
(* sequence of tokens "[", the quote, the tokens of each id, "," and "]".  *)
(***************************************************************************)
\* AsyncStorage.getItem resolves with null for an absent key
NoData == << >>

Quote == "\""

has(set, x) == \E i \in 1..Len(set) : set[i] = x

\* mutant: the id is pushed whether or not it is there (an array, not a Set)
setAdd_always(set, x) == Append(set, x)

\* Set.prototype.add
setAdd(set, x) == IF has(set, x) THEN set ELSE Append(set, x)

\* new Set(array)
RECURSIVE SetOf(_)
SetOf(arr) ==
  IF arr = << >> THEN << >>
  ELSE setAdd(SetOf(SubSeq(arr, 1, Len(arr) - 1)), arr[Len(arr)])

\* JSON.stringify of an array of strings
RECURSIVE stringifyElements(_)
stringifyElements(arr) ==
  IF arr = << >> THEN << >>
  ELSE <<Quote>> \o Head(arr) \o <<Quote>>
         \o (IF Len(arr) > 1 THEN <<",">> ELSE << >>)
         \o stringifyElements(Tail(arr))

JSONstringify(arr) == <<"[">> \o stringifyElements(arr) \o <<"]">>

\* the position of the first quote of t after position i, 0 when there is none
RECURSIVE closingQuote(_, _)
closingQuote(t, i) ==
  IF i >= Len(t) THEN 0
  ELSE IF t[i + 1] = Quote THEN i + 1
  ELSE closingQuote(t, i + 1)

\* the elements between the brackets; ok is false where JSON.parse throws
RECURSIVE parseElements(_, _)
parseElements(t, acc) ==
  IF t = << >> \/ Head(t) # Quote THEN [ok |-> FALSE, value |-> << >>]
  ELSE LET close == closingQuote(t, 1)
       IN IF close = 0 THEN [ok |-> FALSE, value |-> << >>]
          ELSE LET str == SubSeq(t, 2, close - 1)
                   rest == SubSeq(t, close + 1, Len(t))
               IN IF rest = << >> THEN [ok |-> TRUE, value |-> Append(acc, str)]
                  ELSE IF Head(rest) = ","
                  THEN parseElements(Tail(rest), Append(acc, str))
                  ELSE [ok |-> FALSE, value |-> << >>]

\* JSON.parse of a text that is expected to hold an array of strings
JSONparse(text) ==
  IF Len(text) < 2 \/ text[1] # "[" \/ text[Len(text)] # "]"
  THEN [ok |-> FALSE, value |-> << >>]
  ELSE IF Len(text) = 2 THEN [ok |-> TRUE, value |-> << >>]
  ELSE parseElements(SubSeq(text, 2, Len(text) - 1), << >>)

\* what a settled storage operation gives its caller: it resolved (ok) with
\* the data, or it rejected
Response(ok, data) == [ok |-> ok, data |-> data]

\* what a tracker function gives its caller: a value, or an exception
Outcome(value, threw) == [value |-> value, threw |-> threw]

\* mutant: getWatchedReelIds without its try/catch
getWatchedReelIds_uncaught(resp) ==
  IF ~resp.ok THEN Outcome(<< >>, TRUE)
  ELSE IF resp.data = NoData THEN Outcome(<< >>, FALSE)
  ELSE LET ids == JSONparse(resp.data)
       IN IF ids.ok THEN Outcome(SetOf(ids.value), FALSE)
          ELSE Outcome(<< >>, TRUE)

\* getWatchedReelIds once getItem has settled: a rejected getItem and a
\* throwing JSON.parse are caught and fall through to `return new Set()`
getWatchedReelIds(resp) ==
  IF ~resp.ok THEN Outcome(<< >>, FALSE)
  ELSE IF resp.data = NoData THEN Outcome(<< >>, FALSE)
  ELSE LET ids == JSONparse(resp.data)
       IN IF ids.ok THEN Outcome(SetOf(ids.value), FALSE)
          ELSE Outcome(<< >>, FALSE)

\* markReelAsWatched between its two awaits: watchedIds.add(reelId) and the
\* text handed to setItem
markedText(watchedIds, reelId) == JSONstringify(setAdd(watchedIds, reelId))

\* isReelWatched has no try/catch of its own
isReelWatched(resp, reelId) ==
  LET watchedIds == getWatchedReelIds(resp)
  IN IF watchedIds.threw THEN Outcome(FALSE, TRUE)
     ELSE Outcome(has(watchedIds.value, reelId), FALSE)

\* getWatchedCount has no try/catch of its own
getWatchedCount(resp) ==
  LET watchedIds == getWatchedReelIds(resp)
  IN IF watchedIds.threw THEN Outcome(0, TRUE)
     ELSE Outcome(Len(watchedIds.value), FALSE)

(***************************************************************************)
(* Feed items.  An item is [id, virtualIndex, reel]: reel names the        *)
(* content shown (text, subtitle, background), <<"api", n>> for backend    *)
(* reel n, <<"demo", n>> for demo reel n, <<"placeholder", n>> for entry n *)
(* of REEL_PLACEHOLDER_DATA.  The video source is not part of the model    *)
(* (generateInfiniteFeedData draws it at random).                          *)
(***************************************************************************)
NoError == ""

Min(a, b) == IF a < b THEN a ELSE b

\* utils/api fetchReels(limit, offset, null): the backend holds reels
\* 1..total in a fixed order and serves the slice after `off`
fetchReels(limit, off, total) ==
  [reels |-> [i \in 1..(IF total > off THEN Min(limit, total - off) ELSE 0)
                |-> [id |-> off + i]],
   total |-> total]

\* backend totals a fetch may observe
Totals == {0, SmallTotal, LargeTotal}

transformReelToFeedItem(reel, index) ==
  [id |-> toString(reel.id), virtualIndex |-> index, reel |-> <<"api", reel.id>>]

transformReelsToFeedItems(reels, startIndex) ==
  [i \in 1..Len(reels) |-> transformReelToFeedItem(reels[i], startIndex + (i - 1))]

\* mutant: one placeholder short
generateInfiniteFeedData_short(startIndex, count) ==
  [k \in 1..(count - 1) |->
     [id |-> toString(startIndex + (k - 1)),
      virtualIndex |-> (startIndex + (k - 1)) % NPlaceholders,
      reel |-> <<"placeholder", (startIndex + (k - 1)) % NPlaceholders>>]]

\* startIndex >= 0 at every call, so the negative-modulo repair is idle
generateInfiniteFeedData(startIndex, count) ==
  [k \in 1..count |->
     [id |-> toString(startIndex + (k - 1)),
      virtualIndex |-> (startIndex + (k - 1)) % NPlaceholders,
      reel |-> <<"placeholder", (startIndex + (k - 1)) % NPlaceholders>>]]

getDemoReels ==
  [i \in 1..NDemoVideos |-> [id |-> <<"demo-">> \o toString(i), n |-> i]]

transformDemoReelsToFeedItems(demoReels, startIndex) ==
  [i \in 1..Len(demoReels) |->
     [id |-> demoReels[i].id, virtualIndex |-> startIndex + (i - 1),
      reel |-> <<"demo", demoReels[i].n>>]]

hasDemoVideos == NDemoVideos > 0

\* mutant: the loop number is left out of the id
loopedItems_noCounter(prev, catalog, currentLoop) ==
  [k \in 1..Len(catalog) |->
     [catalog[k] EXCEPT
        !.id = catalog[k].id \o <<"-loop">> \o <<"-">> \o toString(k - 1),
        !.virtualIndex = Len(prev) + (k - 1)]]

\* allReels.current.map((item, idx) => ({...item,
\*   id: `${item.id}-loop${currentLoop}-${idx}`, virtualIndex: prev.length + idx}))
loopedItems(prev, catalog, currentLoop) ==
  [k \in 1..Len(catalog) |->
     [catalog[k] EXCEPT
        !.id = catalog[k].id \o <<"-loop">> \o toString(currentLoop)
                 \o <<"-">> \o toString(k - 1),
        !.virtualIndex = Len(prev) + (k - 1)]]

(***************************************************************************)
(* handleEndReached is memoised with an empty dependency list (line 241),  *)
(* so FlatList always calls the loadMoreReels, and through it the          *)
(* loadMoreApiReels, of the first render.  The `offset` and `feedData`     *)
(* that closure reads are the first render's: the useState initial values  *)
(* 0 (line 31) and [] (line 26).  The refs and the state setters are the   *)
(* same objects in every render.                                           *)
(***************************************************************************)
capturedOffset == 0
capturedFeedLength == 0

Ids(items) == {items[i].id : i \in 1..Len(items)}

Step(kind, count, total, reqOffset) ==
  [kind |-> kind, count |-> count, total |-> total, reqOffset |-> reqOffset]

\* a request in flight; ids number the requests in the order of their issue
Request(kind, off) ==
  [id |-> reqCount + 1, kind |-> kind, offset |-> off, cursor |-> fetched]

\* setFeedData(v), with the history of issued ids
SetFeedData(v) ==
  /\ feedData' = v
  /\ issued' = issued \cup Ids(v)

InitFeed ==
  /\ currentIndex = 0
  /\ feedData = << >>
  /\ isLoading = TRUE
  /\ hasMore = TRUE
  /\ isCaughtUp = FALSE
  /\ error = NoError
  /\ offset = 0
  /\ isLoadingMore = FALSE
  /\ allReels = << >>
  /\ loopCounter = 0
  /\ isDemo \in BOOLEAN
  /\ hookMounted = FALSE
  /\ hookUnmounted = FALSE
  /\ pending = {}
  /\ reqCount = 0
  /\ issued = {}
  /\ fetched = 0
  /\ lastStep = Step("none", 0, 0, 0)

\* loadInitialReels up to its first await: loadDemoReels awaits
\* getWatchedReelIds, loadApiReels awaits fetchReels(PAGE_SIZE, 0, null)
loadInitialReels ==
  /\ isLoading' = TRUE
  /\ error' = NoError
  /\ pending' = pending
                 \cup {Request(IF isDemo THEN "ledger" ELSE "initial", 0)}
  /\ reqCount' = reqCount + 1

\* useEffect(() => { loadInitialReels(); }, [])
MountEffect ==
  /\ ~hookMounted
  /\ reqCount < MaxFetches
  /\ hookMounted' = TRUE
  /\ loadInitialReels
  /\ lastStep' = Step("mount", 0, 0, 0)
  /\ UNCHANGED <<currentIndex, feedData, hasMore, isCaughtUp, offset,
                 isLoadingMore, allReels, loopCounter, isDemo, hookUnmounted,
                 issued, fetched>>
  /\ UNCHANGED <<vmVars, screenVars, ledgerVars, outerVars>>

Refresh ==
  /\ hookMounted /\ ~hookUnmounted
  /\ reqCount < MaxFetches
  /\ offset' = 0
  /\ isCaughtUp' = FALSE
  /\ hasMore' = TRUE
  /\ loadInitialReels
  /\ lastStep' = Step("refresh", 0, 0, 0)
  /\ UNCHANGED <<currentIndex, feedData, isLoadingMore, allReels, loopCounter,
                 isDemo, hookMounted, hookUnmounted, issued, fetched>>
  /\ UNCHANGED <<vmVars, screenVars, ledgerVars, outerVars>>

\* mutant: the reels already watched are left out of the list
demoFeedItems_unwatched(watchedIds) ==
  LET fresh == SelectSeq(getDemoReels, LAMBDA reel : ~has(watchedIds, reel.id))
  IN transformDemoReelsToFeedItems(fresh, 0)

\* lines 63-64 of loadDemoReels, where watchedIdsRef.current is in scope
demoFeedItems(watchedIds) == transformDemoReelsToFeedItems(getDemoReels, 0)

\* loadDemoReels after its getWatchedReelIds returned: getItem settled,
\* resolved (ok) or rejected, with the item stored at that moment
DemoLoaded(r, ok) ==
  /\ ~hookUnmounted
  /\ r \in pending /\ r.kind = "ledger"
  /\ pending' = pending \ {r}
  /\ LET watchedIds == getWatchedReelIds(Response(ok, stored))
     IN watchedIdsRef' = IF watchedIds.threw THEN watchedIdsRef
                         ELSE watchedIds.value
  /\ IF getWatchedReelIds(Response(ok, stored)).threw
     THEN /\ error' = "Failed to load demo reels"
          /\ UNCHANGED <<isCaughtUp, hasMore, feedData, issued, allReels>>
     ELSE IF ~hasDemoVideos
     THEN /\ error' = "No demo videos available. Add videos to assets/demo/"
          /\ isCaughtUp' = TRUE
          /\ hasMore' = FALSE
          /\ SetFeedData(<< >>)
          /\ UNCHANGED allReels
     ELSE LET items == demoFeedItems(watchedIdsRef')
          IN /\ allReels' = items
             /\ SetFeedData(items)
             /\ hasMore' = TRUE
             /\ isCaughtUp' = FALSE
             /\ UNCHANGED error
  /\ isLoading' = FALSE
  /\ lastStep' = Step("demoLoaded", 0, 0, 0)
  /\ UNCHANGED <<currentIndex, offset, isLoadingMore, loopCounter, isDemo,
                 hookMounted, hookUnmounted, reqCount, fetched>>
  /\ UNCHANGED <<stored, storageQueue, callCount, lastReturn, marked, pristine>>
  /\ UNCHANGED <<vmVars, screenVars, outerVars>>

\* mutant: a full last page counts as more to come
moreAvailable_orEqual(response) == Len(response.reels) <= response.total

\* response.reels.length < response.total, line 98
moreAvailable(response) == Len(response.reels) < response.total

\* loadApiReels: fetchReels resolved with a page
ApiInitialLoaded(r, total) ==
  /\ ~hookUnmounted
  /\ r \in pending /\ r.kind = "initial"
  /\ pending' = pending \ {r}
  /\ LET response == fetchReels(PAGE_SIZE, r.offset, total)
     IN /\ IF Len(response.reels) = 0
           THEN /\ isCaughtUp' = TRUE
                /\ hasMore' = FALSE
                /\ SetFeedData(<< >>)
                /\ UNCHANGED <<allReels, offset>>
           ELSE LET items == transformReelsToFeedItems(response.reels, 0)
                IN /\ allReels' = items
                   /\ SetFeedData(items)
                   /\ offset' = Len(response.reels)
                   /\ hasMore' = moreAvailable(response)
                   /\ isCaughtUp' = FALSE
        /\ fetched' = Len(response.reels)
        /\ lastStep' = Step(IF Len(response.reels) = 0 THEN "initEmpty" ELSE "initPage",
                            Len(response.reels), response.total, r.offset)
  /\ isLoading' = FALSE
  /\ UNCHANGED <<currentIndex, error, isLoadingMore, loopCounter, isDemo,
                 hookMounted, hookUnmounted, reqCount>>
  /\ UNCHANGED <<vmVars, screenVars, ledgerVars, outerVars>>

\* loadApiReels: fetchReels rejected
ApiInitialFailed(r) ==
  /\ ~hookUnmounted
  /\ r \in pending /\ r.kind = "initial"
  /\ pending' = pending \ {r}
  /\ error' = "Failed to load reels"
  /\ SetFeedData(generateInfiniteFeedData(0, PAGE_SIZE))
  /\ hasMore' = TRUE
  /\ isLoading' = FALSE
  /\ fetched' = 0
  /\ lastStep' = Step("initFail", 0, 0, r.offset)
  /\ UNCHANGED <<currentIndex, isCaughtUp, offset, isLoadingMore, allReels,
                 loopCounter, isDemo, hookMounted, hookUnmounted, reqCount>>
  /\ UNCHANGED <<vmVars, screenVars, ledgerVars, outerVars>>

\* what FeedScreen returns (index.tsx lines 59-88)
screenView ==
  IF isLoading /\ Len(feedData) = 0 THEN "loading"
  ELSE IF ~isLoading /\ Len(feedData) = 0 THEN "empty"
  ELSE IF error # NoError /\ Len(feedData) = 0 THEN "error"
  ELSE "list"

\* FlatList exists, and can report the end reached, only in the list view
listRendered == screenView = "list"

\* mutant: the loop branches are taken with an empty catalog too
canLoop_always == TRUE

\* if (allReels.current.length > 0), lines 155 and 180
canLoop == Len(allReels) > 0

\* mutant: the new items are put before the list
appendItems_before(prev, items) == items \o prev

\* setFeedData((prev) => [...prev, ...items]), lines 137, 165, 173 and 190
appendItems(prev, items) == prev \o items

\* the loop step shared by loadMoreDemoReels and loadMoreApiReels
AppendLoop ==
  /\ loopCounter' = loopCounter + 1
  /\ SetFeedData(appendItems(feedData,
                             loopedItems(feedData, allReels, loopCounter + 1)))

\* handleEndReached -> loadMoreReels -> loadMoreDemoReels
EndReachedDemo ==
  /\ hookMounted /\ ~hookUnmounted /\ listRendered /\ isDemo
  /\ loopCounter < MaxLoops
  /\ ~(isLoadingMore \/ Len(allReels) = 0)
  /\ AppendLoop
  /\ isLoadingMore' = FALSE
  /\ lastStep' = Step("demoLoop", 0, 0, 0)
  /\ UNCHANGED <<currentIndex, isLoading, hasMore, isCaughtUp, error, offset,
                 allReels, isDemo, hookMounted, hookUnmounted, pending, reqCount, fetched>>
  /\ UNCHANGED <<vmVars, screenVars, ledgerVars, outerVars>>

\* mutant: loadMoreApiReels does not look at the in-flight flag
loadMoreBusy_never == FALSE

\* if (isLoadingMore.current) return;
loadMoreBusy == isLoadingMore

\* handleEndReached -> loadMoreReels -> loadMoreApiReels up to its await
EndReachedApi ==
  /\ hookMounted /\ ~hookUnmounted /\ listRendered /\ ~isDemo
  /\ reqCount < MaxFetches
  /\ IF loadMoreBusy
     THEN /\ lastStep' = Step("endReachedBusy", 0, 0, 0)
          /\ UNCHANGED <<isLoadingMore, pending, reqCount>>
     ELSE /\ isLoadingMore' = TRUE
          /\ pending' = pending \cup {Request("more", capturedOffset)}
          /\ reqCount' = reqCount + 1
          /\ lastStep' = Step("endReached", 0, 0, capturedOffset)
  /\ UNCHANGED <<currentIndex, feedData, isLoading, hasMore, isCaughtUp, error,
                 offset, allReels, loopCounter, isDemo, hookMounted, hookUnmounted, issued,
                 fetched>>
  /\ UNCHANGED <<vmVars, screenVars, ledgerVars, outerVars>>

\* mutant: the flag is cleared at the end of the try block only, which a
\* throw skips
finallyLoadingMore_kept == isLoadingMore

\* finally { isLoadingMore.current = false; }
finallyLoadingMore == FALSE

\* loadMoreApiReels: fetchReels resolved with a page
ApiMoreLoaded(r, total) ==
  /\ ~hookUnmounted
  /\ r \in pending /\ r.kind = "more"
  /\ pending' = pending \ {r}
  /\ LET response == fetchReels(PAGE_SIZE, r.offset, total)
     IN /\ IF Len(response.reels) = 0
           THEN /\ IF canLoop
                   THEN AppendLoop
                   ELSE UNCHANGED <<loopCounter, feedData, issued>>
                /\ hasMore' = TRUE
                /\ UNCHANGED <<allReels, offset>>
           ELSE LET newItems == transformReelsToFeedItems(response.reels,
                                                          capturedFeedLength)
                IN /\ allReels' = allReels \o newItems
                   /\ SetFeedData(appendItems(feedData, newItems))
                   /\ offset' = offset + Len(response.reels)
                   /\ hasMore' = TRUE
                   /\ UNCHANGED loopCounter
        /\ fetched' = fetched + Len(response.reels)
        /\ lastStep' = Step(IF Len(response.reels) = 0 THEN "moreEmpty" ELSE "morePage",
                            Len(response.reels), response.total, r.offset)
  /\ isLoadingMore' = finallyLoadingMore
  /\ UNCHANGED <<currentIndex, isLoading, isCaughtUp, error, isDemo,
                 hookMounted, hookUnmounted, reqCount>>
  /\ UNCHANGED <<vmVars, screenVars, ledgerVars, outerVars>>

\* loadMoreApiReels: fetchReels rejected
ApiMoreFailed(r) ==
  /\ ~hookUnmounted
  /\ r \in pending /\ r.kind = "more"
  /\ pending' = pending \ {r}
  /\ IF canLoop
     THEN AppendLoop
     ELSE UNCHANGED <<loopCounter, feedData, issued>>
  /\ isLoadingMore' = finallyLoadingMore
  /\ lastStep' = Step("moreFail", 0, 0, r.offset)
  /\ UNCHANGED <<currentIndex, isLoading, hasMore, isCaughtUp, error, offset,
                 allReels, isDemo, hookMounted, hookUnmounted, reqCount, fetched>>
  /\ UNCHANGED <<vmVars, screenVars, ledgerVars, outerVars>>

(***************************************************************************)
(* Unmount.  useReelFeed registers no effect cleanup and keeps no mounted  *)
(* flag: the requests in flight go on, and the continuation of each runs   *)
(* when it settles.  React drops the state updates of an unmounted         *)
(* component (the set... calls do nothing); the assignments to the refs    *)
(* are plain assignments and take place.                                   *)
(***************************************************************************)
HookUnmount ==
  /\ hookMounted /\ ~hookUnmounted
  /\ hookUnmounted' = TRUE
  /\ lastStep' = Step("unmount", 0, 0, 0)
  /\ UNCHANGED <<currentIndex, feedData, isLoading, hasMore, isCaughtUp, error,
                 offset, isLoadingMore, allReels, loopCounter, isDemo,
                 hookMounted, pending, reqCount, issued, fetched>>
  /\ UNCHANGED <<vmVars, screenVars, ledgerVars, outerVars>>

\* loadDemoReels resumes after the unmount: lines 52 and 65 assign refs
LateDemoLoaded(r, ok) ==
  /\ hookUnmounted
  /\ r \in pending /\ r.kind = "ledger"
  /\ pending' = pending \ {r}
  /\ LET watchedIds == getWatchedReelIds(Response(ok, stored))
     IN /\ watchedIdsRef' = IF watchedIds.threw THEN watchedIdsRef
                            ELSE watchedIds.value
        /\ allReels' = IF ~watchedIds.threw /\ hasDemoVideos
                       THEN demoFeedItems(watchedIdsRef')
                       ELSE allReels
  /\ lastStep' = Step("lateDemoLoaded", 0, 0, 0)
  /\ UNCHANGED <<currentIndex, feedData, isLoading, hasMore, isCaughtUp, error,
                 offset, isLoadingMore, loopCounter, isDemo, hookMounted,
                 hookUnmounted, reqCount, issued, fetched>>
  /\ UNCHANGED <<stored, storageQueue, callCount, lastReturn, marked, pristine>>
  /\ UNCHANGED <<vmVars, screenVars, outerVars>>

\* loadApiReels resumes with a page after the unmount: line 95 assigns a ref
LateApiInitialLoaded(r, total) ==
  /\ hookUnmounted
  /\ r \in pending /\ r.kind = "initial"
  /\ pending' = pending \ {r}
  /\ LET response == fetchReels(PAGE_SIZE, r.offset, total)
     IN /\ allReels' = IF Len(response.reels) = 0 THEN allReels
                       ELSE transformReelsToFeedItems(response.reels, 0)
        /\ fetched' = Len(response.reels)
        /\ lastStep' = Step(IF Len(response.reels) = 0 THEN "lateInitEmpty"
                                                       ELSE "lateInitPage",
                            Len(response.reels), response.total, r.offset)
  /\ UNCHANGED <<currentIndex, feedData, isLoading, hasMore, isCaughtUp, error,
                 offset, isLoadingMore, loopCounter, isDemo, hookMounted,
                 hookUnmounted, reqCount, issued>>
  /\ UNCHANGED <<vmVars, screenVars, ledgerVars, outerVars>>

\* loadApiReels resumes in its catch after the unmount: no ref is assigned
LateApiInitialFailed(r) ==
  /\ hookUnmounted
  /\ r \in pending /\ r.kind = "initial"
  /\ pending' = pending \ {r}
  /\ fetched' = 0
  /\ lastStep' = Step("lateInitFail", 0, 0, r.offset)
  /\ UNCHANGED <<currentIndex, feedData, isLoading, hasMore, isCaughtUp, error,
                 offset, isLoadingMore, allReels, loopCounter, isDemo,
                 hookMounted, hookUnmounted, reqCount, issued>>
  /\ UNCHANGED <<vmVars, screenVars, ledgerVars, outerVars>>

\* loadMoreApiReels resumes with a page after the unmount: lines 156, 172
\* and 193 assign refs
LateApiMoreLoaded(r, total) ==
  /\ hookUnmounted
  /\ r \in pending /\ r.kind = "more"
  /\ pending' = pending \ {r}
  /\ LET response == fetchReels(PAGE_SIZE, r.offset, total)
     IN /\ IF Len(response.reels) = 0
           THEN /\ loopCounter' = IF canLoop THEN loopCounter + 1
                                  ELSE loopCounter
                /\ UNCHANGED allReels
           ELSE /\ allReels' = allReels \o transformReelsToFeedItems(
                                             response.reels, capturedFeedLength)
                /\ UNCHANGED loopCounter
        /\ fetched' = fetched + Len(response.reels)
        /\ lastStep' = Step(IF Len(response.reels) = 0 THEN "lateMoreEmpty"
                                                       ELSE "lateMorePage",
                            Len(response.reels), response.total, r.offset)
  /\ isLoadingMore' = finallyLoadingMore
  /\ UNCHANGED <<currentIndex, feedData, isLoading, hasMore, isCaughtUp, error,
                 offset, isDemo, hookMounted, hookUnmounted, reqCount, issued>>
  /\ UNCHANGED <<vmVars, screenVars, ledgerVars, outerVars>>

\* loadMoreApiReels resumes in its catch after the unmount: lines 182 and
\* 193 assign refs
LateApiMoreFailed(r) ==
  /\ hookUnmounted
  /\ r \in pending /\ r.kind = "more"
  /\ pending' = pending \ {r}
  /\ loopCounter' = IF canLoop THEN loopCounter + 1 ELSE loopCounter
  /\ isLoadingMore' = finallyLoadingMore
  /\ lastStep' = Step("lateMoreFail", 0, 0, r.offset)
  /\ UNCHANGED <<currentIndex, feedData, isLoading, hasMore, isCaughtUp, error,
                 offset, allReels, isDemo, hookMounted, hookUnmounted, reqCount,
                 issued, fetched>>
  /\ UNCHANGED <<vmVars, screenVars, ledgerVars, outerVars>>

(***************************************************************************)
(* FeedScreen and its ReelItem cells.  A cell is the ReelItem FlatList     *)
(* renders for one list index; mounting it creates its player              *)
(* (useVideoPlayer), unmounting it releases the player.  A step is one     *)
(* event together with the render it causes and the effects of that        *)
(* render.                                                                 *)
(***************************************************************************)
Cells == 0..(NCells - 1)

\* no viewport event had a first item with an index yet
NoIndex == -1

InitScreen ==
  /\ cellPlayer = [i \in Cells |-> NoPlayer]
  /\ isPaused = [i \in Cells |-> FALSE]
  /\ nextPlayer = 1
  /\ lastViewable = [kind |-> "start", index |-> 0]
  /\ latestIndex = NoIndex

\* the mounted cells
Mounted(cp) == {i \in Cells : cp[i] # NoPlayer}

\* mutant: every cell up to the current one is active
isActiveProp_upTo(index, cur) == index <= cur

\* renderItem: isActive={index === currentIndex}
isActiveProp(index, cur) == index = cur

\* the manager, the players and the cells' isPaused states
ScreenWorld == [playing |-> playing, muted |-> muted,
                activePlayer |-> activePlayer, activeItemId |-> activeItemId,
                threw |-> FALSE, isPaused |-> isPaused]

\* the activation effect of cell i (reel-item.tsx lines 84-108); the cell is
\* mounted, so player is set and isMounted.current is true
activationEffect(sw, i, player, isActive) ==
  IF isActive
  THEN LET registered == setActivePlayer(sw, player, feedData[i + 1].id)
       IN IF ~registered.isPaused[i]
          THEN tryUnmutePlay(registered, player)
          ELSE registered
  ELSE [tryPauseMute(sw, player) EXCEPT !.isPaused[i] = FALSE]

\* the effects of one commit, in the order of the cells
RECURSIVE runEffects(_, _, _, _)
runEffects(sw, cells, cp, cur) ==
  IF cells = {} THEN sw
  ELSE LET i == CHOOSE c \in cells : \A d \in cells : c <= d
       IN runEffects(activationEffect(sw, i, cp[i], isActiveProp(i, cur)),
                     cells \ {i}, cp, cur)

\* a commit re-runs the effect of the cells in `cells`; the cells whose
\* isPaused the effects reset render once more and run their effect again
commit(sw, cells, cp, cur) ==
  LET first == runEffects(sw, cells, cp, cur)
      again == {i \in Mounted(cp) : first.isPaused[i] # sw.isPaused[i]}
  IN runEffects(first, again, cp, cur)

SetScreenWorld(sw) ==
  /\ SetWorld(sw)
  /\ isPaused' = sw.isPaused

\* the first viewable item of a viewport event: none (empty list), a token
\* with a null index, or a token with the index of a list item
FirstViewable ==
  {[kind |-> "none", index |-> 0], [kind |-> "null", index |-> 0]}
    \cup {[kind |-> "index", index |-> i] : i \in {c \in Cells : c < Len(feedData)}}

\* mutant: the callback is memoised with no dependency and compares with the
\* currentIndex of the first render
nextIndex_stale(first, cur) ==
  IF first.kind = "index" /\ first.index # 0 THEN first.index ELSE cur

\* the currentIndex onViewableItemsChanged leaves (lines 224-229): the
\* callback is memoised on [currentIndex], so it compares with the current one
nextIndex(first, cur) ==
  IF first.kind = "index" /\ first.index # cur THEN first.index ELSE cur

\* FlatList calls onViewableItemsChanged; the screen renders
OnViewableItemsChanged(first) ==
  /\ listRendered
  /\ lastViewable' = first
  /\ latestIndex' = IF first.kind = "index" THEN first.index ELSE latestIndex
  /\ LET newIndex == nextIndex(first, currentIndex)
         changed == {i \in Mounted(cellPlayer) :
                       isActiveProp(i, currentIndex) # isActiveProp(i, newIndex)}
     IN /\ currentIndex' = newIndex
        /\ SetScreenWorld(commit(ScreenWorld, changed, cellPlayer, newIndex))
  /\ UNCHANGED <<released, lastCall, cellPlayer, nextPlayer, ledgerVars, outerVars>>
  /\ UNCHANGED <<feedData, isLoading, hasMore, isCaughtUp, error,
                 offset, isLoadingMore, allReels, loopCounter, isDemo,
                 hookMounted, hookUnmounted, pending, reqCount, issued, fetched, lastStep>>

\* handlePress of cell i, and the effect its isPaused change re-runs
HandlePress(i) ==
  /\ listRendered
  /\ cellPlayer[i] # NoPlayer
  /\ isActiveProp(i, currentIndex)
  /\ LET newPausedState == ~isPaused[i]
         set == [ScreenWorld EXCEPT !.isPaused[i] = newPausedState]
         controlled == IF newPausedState THEN tryPause(set, cellPlayer[i])
                       ELSE tryUnmutePlay(set, cellPlayer[i])
     IN SetScreenWorld(commit(controlled, {i}, cellPlayer, currentIndex))
  /\ UNCHANGED <<released, lastCall, cellPlayer, nextPlayer, lastViewable,
                 latestIndex, feedVars, ledgerVars, outerVars>>

\* FlatList mounts the cell of index i: a new player, created muted and not
\* playing, and the cell's first effects
MountCell(i) ==
  /\ listRendered
  /\ i < Len(feedData)
  /\ cellPlayer[i] = NoPlayer
  /\ nextPlayer <= NPlayers
  /\ LET cp == [cellPlayer EXCEPT ![i] = nextPlayer]
     IN /\ cellPlayer' = cp
        /\ SetScreenWorld(commit(ScreenWorld, {i}, cp, currentIndex))
  /\ nextPlayer' = nextPlayer + 1
  /\ UNCHANGED <<released, lastCall, lastViewable, latestIndex, feedVars,
                 ledgerVars, outerVars>>

\* FlatList unmounts the cell of index i: useVideoPlayer releases its player
UnmountCell(i) ==
  /\ cellPlayer[i] # NoPlayer
  /\ cellPlayer' = [cellPlayer EXCEPT ![i] = NoPlayer]
  /\ isPaused' = [isPaused EXCEPT ![i] = FALSE]
  /\ released' = [released EXCEPT ![cellPlayer[i]] = TRUE]
  /\ playing' = [playing EXCEPT ![cellPlayer[i]] = FALSE]
  /\ UNCHANGED <<muted, activePlayer, activeItemId, lastCall, raised,
                 nextPlayer, lastViewable, latestIndex, feedVars, ledgerVars, outerVars>>

NextScreen ==
  \/ \E first \in FirstViewable : OnViewableItemsChanged(first)
  \/ \E i \in Cells : HandlePress(i)
  \/ \E i \in Cells : MountCell(i)
  \/ \E i \in Cells : UnmountCell(i)

\* the feed lists the screen is observed with: the demo catalog, and the
\* first API page appended twice (an initial load and one load-more)
DemoFeedLoaded ==
  /\ isDemo = TRUE
  /\ feedData = transformDemoReelsToFeedItems(getDemoReels, 0)
  /\ allReels = feedData
  /\ offset = 0
  /\ fetched = 0
  /\ reqCount = 1
  /\ lastStep = Step("demoLoaded", 0, 0, 0)

ApiFeedLoadedTwice ==
  LET page == transformReelsToFeedItems(
                fetchReels(PAGE_SIZE, 0, SmallTotal).reels, 0)
  IN /\ isDemo = FALSE
     /\ feedData = page \o page
     /\ allReels = feedData
     /\ offset = 2 * Len(page)
     /\ fetched = 2 * Len(page)
     /\ reqCount = 2
     /\ lastStep = Step("morePage", Len(page), SmallTotal, capturedOffset)

InitLoadedFeed ==
  /\ currentIndex = 0
  /\ isLoading = FALSE
  /\ hasMore = TRUE
  /\ isCaughtUp = FALSE
  /\ error = NoError
  /\ isLoadingMore = FALSE
  /\ loopCounter = 0
  /\ hookMounted = TRUE
  /\ hookUnmounted = FALSE
  /\ pending = {}
  /\ (DemoFeedLoaded \/ ApiFeedLoadedTwice)
  /\ issued = Ids(feedData)

(***************************************************************************)
(* The calls of the local watch tracker.  A call issues its storage        *)
(* operations one after another, each awaited; AsyncStorage settles the    *)
(* operations in the order of their issue, and the step that settles one   *)
(* runs the continuation of the call that awaits it.                       *)
(***************************************************************************)
\* the items earlier sessions may have left in the storage
PersistedLedgers ==
  {NoData, JSONstringify(<<getDemoReels[2].id, getDemoReels[1].id>>)}

\* prev: the call that had completed last before this one completed
NoReturn == [op |-> "none", reelId |-> NoId, value |-> "undefined",
             threw |-> FALSE, failed |-> FALSE, alone |-> FALSE,
             prev |-> [op |-> "none", reelId |-> NoId, failed |-> FALSE]]

InitLedger ==
  /\ stored \in PersistedLedgers
  /\ storageQueue = << >>
  /\ callCount = 0
  /\ watchedIdsRef = << >>
  /\ lastReturn = NoReturn
  /\ marked = {}
  /\ pristine = TRUE

\* the tracker after loadDemoReels has read it (API mode does not read it)
InitLedgerLoaded ==
  /\ stored \in PersistedLedgers
  /\ storageQueue = << >>
  /\ callCount = 0
  /\ watchedIdsRef = IF isDemo
                     THEN getWatchedReelIds(Response(TRUE, stored)).value
                     ELSE << >>
  /\ lastReturn = NoReturn
  /\ marked = {}
  /\ pristine = TRUE

\* the first storage operation of a call: alone tells that no other call
\* was in flight at any moment of this one
FirstOperation(op, caller, reelId) ==
  [op |-> op, caller |-> caller, reelId |-> reelId,
   phase |-> IF op = "clearWatchHistory" THEN "removeItem" ELSE "getItem",
   text |-> NoData, failed |-> FALSE, alone |-> storageQueue = << >>]

Issue(operation) ==
  /\ callCount < MaxCalls
  /\ callCount' = callCount + 1
  /\ storageQueue' =
       Append([i \in 1..Len(storageQueue) |->
                 [storageQueue[i] EXCEPT !.alone = FALSE]], operation)
  /\ UNCHANGED <<stored, watchedIdsRef, lastReturn, marked, pristine>>

\* the call of `operation` returns to its caller; handleReelView goes on
\* with watchedIdsRef.current.add(reelId) (line 210)
Complete(operation, outcome, failedNow) ==
  /\ lastReturn' = [op |-> operation.op, reelId |-> operation.reelId,
                    value |-> outcome.value, threw |-> outcome.threw,
                    failed |-> operation.failed \/ failedNow,
                    alone |-> operation.alone,
                    prev |-> [op |-> lastReturn.op,
                              reelId |-> lastReturn.reelId,
                              failed |-> lastReturn.failed]]
  /\ watchedIdsRef' = IF operation.caller = "handleReelView" /\ ~outcome.threw
                      THEN setAdd(watchedIdsRef, operation.reelId)
                      ELSE watchedIdsRef

\* ReelItem's view effect calls onView(item.id) when the cell of a list item
\* becomes active for the first time since it was mounted
HandleReelView(reelId) ==
  /\ hookMounted /\ ~hookUnmounted /\ listRendered
  /\ reelId \in Ids(feedData)
  /\ IF isDemo
     THEN Issue(FirstOperation("markReelAsWatched", "handleReelView", reelId))
     ELSE UNCHANGED ledgerVars
  /\ UNCHANGED <<vmVars, feedVars, screenVars, outerVars>>

GetWatchedReelIdsCall ==
  /\ Issue(FirstOperation("getWatchedReelIds", "direct", NoId))
  /\ UNCHANGED <<vmVars, feedVars, screenVars, outerVars>>

IsReelWatchedCall(reelId) ==
  /\ Issue(FirstOperation("isReelWatched", "direct", reelId))
  /\ UNCHANGED <<vmVars, feedVars, screenVars, outerVars>>

GetWatchedCountCall ==
  /\ Issue(FirstOperation("getWatchedCount", "direct", NoId))
  /\ UNCHANGED <<vmVars, feedVars, screenVars, outerVars>>

ClearWatchHistoryCall ==
  /\ Issue(FirstOperation("clearWatchHistory", "direct", NoId))
  /\ UNCHANGED <<vmVars, feedVars, screenVars, outerVars>>

\* AsyncStorage.getItem settles
ServeGetItem(ok) ==
  /\ storageQueue # << >>
  /\ Head(storageQueue).phase = "getItem"
  /\ LET operation == Head(storageQueue)
         resp == Response(ok, stored)
         watchedIds == getWatchedReelIds(resp)
     IN IF operation.op = "markReelAsWatched"
        THEN IF watchedIds.threw
             THEN \* caught by the catch of markReelAsWatched
                  /\ Complete(operation, Outcome("undefined", FALSE), ~ok)
                  /\ storageQueue' = Tail(storageQueue)
             ELSE /\ storageQueue' =
                       Append(Tail(storageQueue),
                              [operation EXCEPT
                                 !.phase = "setItem",
                                 !.text = markedText(watchedIds.value,
                                                     operation.reelId),
                                 !.failed = ~ok])
                  /\ UNCHANGED <<lastReturn, watchedIdsRef>>
        ELSE /\ Complete(operation,
                         CASE operation.op = "getWatchedReelIds" -> watchedIds
                           [] operation.op = "isReelWatched"
                                -> isReelWatched(resp, operation.reelId)
                           [] operation.op = "getWatchedCount"
                                -> getWatchedCount(resp),
                         ~ok)
             /\ storageQueue' = Tail(storageQueue)
  /\ pristine' = (pristine /\ ok)
  /\ UNCHANGED <<stored, callCount, marked>>
  /\ UNCHANGED <<vmVars, feedVars, screenVars, outerVars>>

\* AsyncStorage.setItem settles: markReelAsWatched returns, a rejection
\* caught by its catch
ServeSetItem(ok) ==
  /\ storageQueue # << >>
  /\ Head(storageQueue).phase = "setItem"
  /\ LET operation == Head(storageQueue)
     IN /\ stored' = IF ok THEN operation.text ELSE stored
        /\ Complete(operation, Outcome("undefined", FALSE), ~ok)
        /\ marked' = marked \cup {operation.reelId}
  /\ storageQueue' = Tail(storageQueue)
  /\ pristine' = (pristine /\ ok)
  /\ UNCHANGED callCount
  /\ UNCHANGED <<vmVars, feedVars, screenVars, outerVars>>

\* AsyncStorage.removeItem settles: clearWatchHistory returns, a rejection
\* caught by its catch
ServeRemoveItem(ok) ==
  /\ storageQueue # << >>
  /\ Head(storageQueue).phase = "removeItem"
  /\ stored' = IF ok THEN NoData ELSE stored
  /\ Complete(Head(storageQueue), Outcome("undefined", FALSE), ~ok)
  /\ storageQueue' = Tail(storageQueue)
  /\ pristine' = FALSE
  /\ UNCHANGED <<callCount, marked>>
  /\ UNCHANGED <<vmVars, feedVars, screenVars, outerVars>>

NextLedger ==
  \/ \E id \in Ids(feedData) : HandleReelView(id)
  \/ GetWatchedReelIdsCall
  \/ \E id \in Ids(feedData) : IsReelWatchedCall(id)
  \/ GetWatchedCountCall
  \/ ClearWatchHistoryCall
  \/ \E ok \in BOOLEAN : ServeGetItem(ok)
  \/ \E ok \in BOOLEAN : ServeSetItem(ok)
  \/ \E ok \in BOOLEAN : ServeRemoveItem(ok)

(***************************************************************************)
(* API client (utils/api.ts).  request() is a function of what the network *)
(* does with the request: fetch rejects, or a response arrives with a      *)
(* status and a body.  A body is text that is not JSON, or a JSON value:   *)
(* null, or an object with an optional detail and an optional id.          *)
(***************************************************************************)
\* an absent (or empty: both are falsy) detail, an absent id
NoDetail == << >>
NoUserId == 0
\* the statusCode of an error that is not an ApiError
NoStatus == -1

NotJson == [kind |-> "text", detail |-> NoDetail, id |-> NoUserId]
JsonNull == [kind |-> "null", detail |-> NoDetail, id |-> NoUserId]
JsonObject(detail, id) == [kind |-> "object", detail |-> detail, id |-> id]

Bodies ==
  {NotJson, JsonNull, JsonObject(NoDetail, NoUserId),
   JsonObject(<<"Invalid email or password">>, NoUserId),
   JsonObject(NoDetail, 1), JsonObject(NoDetail, 2)}

\* statuses a response may carry: one inside and one outside 200..299
Statuses == {200, 401}

\* what fetch may reject with: a TypeError whose message includes 'fetch',
\* another TypeError, another error
FetchErrors == {"TypeError: fetch", "TypeError", "Error"}

NoNet == [arrived |-> FALSE, error |-> "none", status |-> 0, body |-> NotJson]

Nets ==
  {[arrived |-> FALSE, error |-> e, status |-> 0, body |-> NotJson] :
     e \in FetchErrors}
  \cup {[arrived |-> TRUE, error |-> "none", status |-> st, body |-> b] :
          st \in Statuses, b \in Bodies}

\* response.ok
responseOk(status) == 200 <= status /\ status <= 299

\* new ApiError(statusCode, message)
ApiError(statusCode, message) ==
  [type |-> "ApiError", statusCode |-> statusCode, message |-> message]

\* an error object of another class
OtherError(type) == [type |-> type, statusCode |-> NoStatus, message |-> << >>]

NoErrorObject == [type |-> "none", statusCode |-> NoStatus, message |-> << >>]

Resolved(value) == [rejected |-> FALSE, error |-> NoErrorObject, value |-> value]
Rejected(e) == [rejected |-> TRUE, error |-> e, value |-> JsonNull]

\* `Request failed with status ${response.status}`
defaultMessage(status) == <<"Request failed with status ">> \o toString(status)

\* the catch block of request(), for an error that is not an ApiError
networkError(thrown) ==
  ApiError(0, IF thrown = "TypeError: fetch"
              THEN <<"Network error - cannot reach ", "API_BASE_URL",
                     ". Make sure the backend is running and the IP address is correct.">>
              ELSE <<"Network error - please check your connection">>)

\* request<T>(endpoint, options): the promise it returns
request(net) ==
  IF ~net.arrived THEN Rejected(networkError(net.error))
  ELSE IF ~responseOk(net.status)
  THEN \* errorData = await response.json().catch(() => ({}))
       LET errorData == IF net.body.kind = "text"
                        THEN JsonObject(NoDetail, NoUserId) ELSE net.body
       IN IF errorData.kind = "null"
          THEN \* errorData.detail throws a TypeError inside the try block
               Rejected(networkError("TypeError"))
          ELSE Rejected(ApiError(net.status,
                                 IF errorData.detail # NoDetail
                                 THEN errorData.detail
                                 ELSE defaultMessage(net.status)))
  ELSE \* `return response.json()` is not awaited: its rejection settles the
       \* promise of request() without passing through the catch block
       IF net.body.kind = "text" THEN Rejected(OtherError("SyntaxError"))
       ELSE Resolved(net.body)

\* the API functions that send a request
RequestFunctions ==
  {"login", "signup", "updateSetup", "getCurrentUser", "updateProfile",
   "deleteAccount"}

ApiFunctions == RequestFunctions \cup {"logout"}

NoStorageOp == [op |-> "none", text |-> NoData]

Continue(kind, result, storageOp) ==
  [kind |-> kind, result |-> result, storageOp |-> storageOp]

\* mutant: deleteAccount clears the cached id whatever the request did
afterRequest_clearsAnyway(function, result) ==
  IF function = "deleteAccount"
  THEN Continue("storage", result, [op |-> "removeItem", text |-> NoData])
  ELSE IF result.rejected THEN Continue("settle", result, NoStorageOp)
  ELSE IF function \in {"login", "signup"}
  THEN IF result.value.kind = "null" \/ result.value.id = NoUserId
       THEN Continue("settle", Rejected(OtherError("TypeError")), NoStorageOp)
       ELSE Continue("storage", result,
                     [op |-> "setItem", text |-> toString(result.value.id)])
  ELSE Continue("settle", result, NoStorageOp)

\* what an API function does when its `await request(...)` has settled
afterRequest(function, result) ==
  IF result.rejected THEN Continue("settle", result, NoStorageOp)
  ELSE IF function \in {"login", "signup"}
  THEN \* saveUserId(user.id): user.id.toString()
       IF result.value.kind = "null" \/ result.value.id = NoUserId
       THEN Continue("settle", Rejected(OtherError("TypeError")), NoStorageOp)
       ELSE Continue("storage", result,
                     [op |-> "setItem", text |-> toString(result.value.id)])
  ELSE IF function = "deleteAccount"
  THEN Continue("storage", result, [op |-> "removeItem", text |-> NoData])
  ELSE Continue("settle", result, NoStorageOp)

ApiStep(kind, call, result) ==
  [kind |-> kind, function |-> call.function, n |-> call.n, net |-> call.net,
   rejected |-> result.rejected, error |-> result.error]

NoCall == [n |-> 0, function |-> "none", pc |-> "none", net |-> NoNet,
           result |-> Resolved(JsonNull), storageOp |-> NoStorageOp]

InitClient ==
  /\ userIdItem \in {NoData, toString(1)}
  /\ apiCalls = {}
  /\ apiCount = 0
  /\ lastApiStep = ApiStep("none", NoCall, Resolved(JsonNull))

\* a caller calls an API function; logout goes to the storage at once
ApiCall(function) ==
  /\ apiCount < MaxApiCalls
  /\ apiCount' = apiCount + 1
  /\ LET call == [NoCall EXCEPT
                    !.n = apiCount + 1, !.function = function,
                    !.pc = IF function = "logout" THEN "storage" ELSE "fetch",
                    !.storageOp = IF function = "logout"
                                  THEN [op |-> "removeItem", text |-> NoData]
                                  ELSE NoStorageOp]
     IN /\ apiCalls' = apiCalls \cup {call}
        /\ lastApiStep' = ApiStep("call", call, Resolved(JsonNull))
  /\ UNCHANGED userIdItem
  /\ UNCHANGED <<appVars, provisionVars, authVars>>

\* the request of call c settles, and the function runs to its next await
\* or to its end
ServeRequest(c, net) ==
  /\ c.pc = "fetch"
  /\ LET next == afterRequest(c.function, request(net))
         call == [c EXCEPT !.pc = "storage", !.net = net,
                           !.result = next.result,
                           !.storageOp = next.storageOp]
     IN IF next.kind = "storage"
        THEN /\ apiCalls' = (apiCalls \ {c}) \cup {call}
             /\ lastApiStep' = ApiStep("request", call, next.result)
        ELSE /\ apiCalls' = apiCalls \ {c}
             /\ lastApiStep' = ApiStep("settled", call, next.result)
  /\ UNCHANGED <<userIdItem, apiCount>>
  /\ UNCHANGED <<appVars, provisionVars, authVars>>

\* AsyncStorage settles the operation of call c, and the function returns
ServeStorage(c, success) ==
  /\ c.pc = "storage"
  /\ apiCalls' = apiCalls \ {c}
  /\ IF success
     THEN /\ userIdItem' = c.storageOp.text
          /\ lastApiStep' = ApiStep("settled", c, Resolved(c.result.value))
     ELSE /\ UNCHANGED userIdItem
          /\ lastApiStep' = ApiStep("settled", c, Rejected(OtherError("Error")))
  /\ UNCHANGED apiCount
  /\ UNCHANGED <<appVars, provisionVars, authVars>>

NextClient ==
  \/ \E f \in ApiFunctions : ApiCall(f)
  \/ \E c \in apiCalls, net \in Nets : ServeRequest(c, net)
  \/ \E c \in apiCalls, success \in BOOLEAN : ServeStorage(c, success)

NextFeed ==
  \/ MountEffect
  \/ Refresh
  \/ \E r \in pending, ok \in BOOLEAN : DemoLoaded(r, ok)
  \/ \E r \in pending, t \in Totals : ApiInitialLoaded(r, t)
  \/ \E r \in pending : ApiInitialFailed(r)
  \/ EndReachedDemo
  \/ EndReachedApi
  \/ \E r \in pending, t \in Totals : ApiMoreLoaded(r, t)
  \/ \E r \in pending : ApiMoreFailed(r)
  \/ HookUnmount
  \/ \E r \in pending, ok \in BOOLEAN : LateDemoLoaded(r, ok)
  \/ \E r \in pending, t \in Totals : LateApiInitialLoaded(r, t)
  \/ \E r \in pending : LateApiInitialFailed(r)
  \/ \E r \in pending, t \in Totals : LateApiMoreLoaded(r, t)
  \/ \E r \in pending : LateApiMoreFailed(r)

(***************************************************************************)
(* Provisioning scripts (scripts/setup_postgres_<os>).  The database      *)
(* server                                                                  *)
(* is the record sv = [database, role, granted]: whether the database      *)
(* brainrot_news_reels exists, the password of role dev_user ("none" when  *)
(* the role does not exist) and the privileges granted to it.  A statement *)
(* is a function from the server to the server and its error status; psql  *)
(* goes on after a failed statement and exits with 0, unless it cannot     *)
(* connect.                                                                *)
(***************************************************************************)
DB_PASSWORD == "dev_pw"

SchemaPrivileges == {"schema", "tables", "sequences", "types"}

Provisioned ==
  [database |-> TRUE, role |-> DB_PASSWORD,
   granted |-> {"database"} \cup SchemaPrivileges]

Sql(sv, failed) == [sv |-> sv, failed |-> failed]

\* CREATE DATABASE brainrot_news_reels
createDatabase(sv) ==
  IF sv.database THEN Sql(sv, TRUE)
  ELSE Sql([sv EXCEPT !.database = TRUE], FALSE)

\* CREATE USER dev_user WITH PASSWORD 'dev_pw'
createUser(sv) ==
  IF sv.role # "none" THEN Sql(sv, TRUE)
  ELSE Sql([sv EXCEPT !.role = DB_PASSWORD], FALSE)

\* ALTER USER dev_user WITH PASSWORD 'dev_pw'
alterUser(sv) ==
  IF sv.role = "none" THEN Sql(sv, TRUE)
  ELSE Sql([sv EXCEPT !.role = DB_PASSWORD], FALSE)

\* GRANT ALL PRIVILEGES ON DATABASE brainrot_news_reels TO dev_user
grantDatabase(sv) ==
  IF ~sv.database \/ sv.role = "none" THEN Sql(sv, TRUE)
  ELSE Sql([sv EXCEPT !.granted = @ \cup {"database"}], FALSE)

\* psql -d brainrot_news_reels: GRANT ALL ON SCHEMA public, and the
\* ALTER DEFAULT PRIVILEGES ... ON TABLES / SEQUENCES / TYPES statements
grantSchema(sv, privilege) ==
  IF ~sv.database \/ sv.role = "none" THEN Sql(sv, TRUE)
  ELSE Sql([sv EXCEPT !.granted = @ \cup {privilege}], FALSE)

\* SELECT 'CREATE DATABASE ...' WHERE NOT EXISTS (...) \gexec
createDatabaseIfMissing(sv) ==
  IF sv.database THEN Sql(sv, FALSE) ELSE createDatabase(sv)

\* DO $$ IF NOT EXISTS (...) THEN CREATE USER ... ELSE ALTER USER ... $$
createOrAlterUser(sv) ==
  IF sv.role = "none" THEN createUser(sv) ELSE alterUser(sv)

\* the four statements of the second here-document
grantAllSchema(sv) ==
  [sv EXCEPT !.granted =
     IF sv.role = "none" THEN @ ELSE @ \cup SchemaPrivileges]

Scripts == {"linux.sh", "macos.sh", "windows.ps1", "windows.bat"}
HereDocumentScripts == {"linux.sh", "macos.sh"}

\* the schema statements of the Windows scripts, one psql process each
SchemaSteps == <<"schema", "tables", "sequences", "types">>

NoRun == [script |-> "none", pc |-> "none", auth |-> FALSE, first |-> FALSE]

\* the exit status before any run has finished
NoExit == -1

Running(script, pc, auth, first) ==
  [script |-> script, pc |-> pc, auth |-> auth, first |-> first]

\* a statement run by a psql process of the Windows scripts: it reaches
\* the server only with the right superuser password
viaPsql(auth, result, sv) == IF auth THEN result ELSE Sql(sv, TRUE)

Servers ==
  {[database |-> d, role |-> r, granted |-> {}] :
     d \in BOOLEAN, r \in {"none", "other", DB_PASSWORD}}

NoScriptRun ==
  /\ run = NoRun
  /\ runCount = 0
  /\ lastExit = NoExit
  /\ lastRun = NoRun
  /\ provisionedBy = {}

InitProvision == server \in Servers /\ NoScriptRun

\* a script starts and runs up to its first psql process.  The shell
\* scripts connect as the operating-system user; the Windows scripts ask
\* for the superuser's password, which may be wrong.
StartScript(script, auth) ==
  /\ run = NoRun
  /\ runCount < MaxRuns
  /\ script \in HereDocumentScripts => auth
  /\ runCount' = runCount + 1
  /\ run' = Running(script,
                    CASE script \in HereDocumentScripts -> "admin"
                      [] script = "windows.ps1" -> "listDatabases"
                      [] script = "windows.bat" -> "createDatabase",
                    auth, script \notin provisionedBy)
  /\ UNCHANGED <<server, lastExit, lastRun, provisionedBy>>
  /\ UNCHANGED <<appVars, clientVars, authVars>>

Finish(status) ==
  /\ run' = NoRun
  /\ lastExit' = status
  /\ lastRun' = run
  /\ provisionedBy' = IF status = 0 /\ server' = Provisioned
                      THEN provisionedBy \cup {run.script}
                      ELSE provisionedBy

Goto(pc) ==
  /\ run' = [run EXCEPT !.pc = pc]
  /\ UNCHANGED <<lastExit, lastRun, provisionedBy>>

\* the first psql process of a shell script: the first here-document
HereDocumentAdmin ==
  /\ run.script \in HereDocumentScripts /\ run.pc = "admin"
  /\ server' = grantDatabase(
                 createOrAlterUser(createDatabaseIfMissing(server).sv).sv).sv
  /\ Goto("schema")
  /\ UNCHANGED runCount
  /\ UNCHANGED <<appVars, clientVars, authVars>>

\* the second psql process of a shell script connects to the database;
\* when it cannot, psql exits with 2 and `set -e` ends the script
HereDocumentSchema ==
  /\ run.script \in HereDocumentScripts /\ run.pc = "schema"
  /\ IF server.database
     THEN server' = grantAllSchema(server) /\ Finish(0)
     ELSE UNCHANGED server /\ Finish(2)
  /\ UNCHANGED runCount
  /\ UNCHANGED <<appVars, clientVars, authVars>>

\* windows.ps1: $dbExists = psql -lqt | Select-String ...
Ps1ListDatabases ==
  /\ run.script = "windows.ps1" /\ run.pc = "listDatabases"
  /\ Goto(IF run.auth /\ server.database THEN "selectUser"
          ELSE "createDatabase")
  /\ UNCHANGED <<server, runCount>>
  /\ UNCHANGED <<appVars, clientVars, authVars>>

\* mutant: the script gives up when CREATE DATABASE reports an error
afterCreateDatabase_abort(script, failed) ==
  IF failed THEN "exit"
  ELSE IF script = "windows.ps1" THEN "selectUser" ELSE "createUser"

\* where a Windows script goes after CREATE DATABASE: windows.ps1 pipes the
\* output to Out-Null, windows.bat only chooses the message by ERRORLEVEL
afterCreateDatabase(script, failed) ==
  IF script = "windows.ps1" THEN "selectUser" ELSE "createUser"

\* windows.ps1 and windows.bat: psql -c "CREATE DATABASE ..."
WindowsCreateDatabase ==
  /\ run.script \in {"windows.ps1", "windows.bat"}
  /\ run.pc = "createDatabase"
  /\ LET result == viaPsql(run.auth, createDatabase(server), server)
         next == afterCreateDatabase(run.script, result.failed)
     IN /\ server' = result.sv
        /\ IF next = "exit" THEN Finish(1) ELSE Goto(next)
  /\ UNCHANGED runCount
  /\ UNCHANGED <<appVars, clientVars, authVars>>

\* windows.ps1: $userExists = psql -t -c "SELECT 1 FROM pg_user ..." 2>&1;
\* the output is blank only when the query ran and found no row
Ps1SelectUser ==
  /\ run.script = "windows.ps1" /\ run.pc = "selectUser"
  /\ Goto(IF run.auth /\ server.role = "none" THEN "createUser"
          ELSE "alterUser")
  /\ UNCHANGED <<server, runCount>>
  /\ UNCHANGED <<appVars, clientVars, authVars>>

\* psql -c "CREATE USER ..."; windows.bat goes on with ALTER USER when the
\* process exits with an error
WindowsCreateUser ==
  /\ run.script \in {"windows.ps1", "windows.bat"} /\ run.pc = "createUser"
  /\ LET result == viaPsql(run.auth, createUser(server), server)
     IN /\ server' = result.sv
        /\ Goto(IF run.script = "windows.bat" /\ result.failed
                THEN "alterUser" ELSE "grantDatabase")
  /\ UNCHANGED runCount
  /\ UNCHANGED <<appVars, clientVars, authVars>>

\* psql -c "ALTER USER ..."
WindowsAlterUser ==
  /\ run.script \in {"windows.ps1", "windows.bat"} /\ run.pc = "alterUser"
  /\ server' = viaPsql(run.auth, alterUser(server), server).sv
  /\ Goto("grantDatabase")
  /\ UNCHANGED runCount
  /\ UNCHANGED <<appVars, clientVars, authVars>>

\* psql -c "GRANT ALL PRIVILEGES ON DATABASE ..."
WindowsGrantDatabase ==
  /\ run.script \in {"windows.ps1", "windows.bat"}
  /\ run.pc = "grantDatabase"
  /\ server' = viaPsql(run.auth, grantDatabase(server), server).sv
  /\ Goto(SchemaSteps[1])
  /\ UNCHANGED runCount
  /\ UNCHANGED <<appVars, clientVars, authVars>>

\* psql -d ... -c "<schema statement k>"; after the last one the script
\* prints its summary and ends
WindowsGrantSchema(k) ==
  /\ run.script \in {"windows.ps1", "windows.bat"}
  /\ run.pc = SchemaSteps[k]
  /\ server' = viaPsql(run.auth, grantSchema(server, SchemaSteps[k]),
                       server).sv
  /\ IF k < Len(SchemaSteps) THEN Goto(SchemaSteps[k + 1]) ELSE Finish(0)
  /\ UNCHANGED runCount
  /\ UNCHANGED <<appVars, clientVars, authVars>>

NextProvision ==
  \/ \E s \in Scripts, auth \in BOOLEAN : StartScript(s, auth)
  \/ HereDocumentAdmin
  \/ HereDocumentSchema
  \/ Ps1ListDatabases
  \/ WindowsCreateDatabase
  \/ Ps1SelectUser
  \/ WindowsCreateUser
  \/ WindowsAlterUser
  \/ WindowsGrantDatabase
  \/ \E k \in 1..Len(SchemaSteps) : WindowsGrantSchema(k)

(***************************************************************************)
(* AuthProvider (context/auth-context.tsx) and the navigation guard of the *)
(* root layout (app/_layout.tsx).  The timers of signIn, signUp,           *)
(* completeSetup and of the mount effect all wait one second, so they fire *)
(* in the order of their creation.                                         *)
(***************************************************************************)
NoUser == [id |-> "null", hasCompletedSetup |-> FALSE]

User(id, hasCompletedSetup) ==
  [id |-> id, hasCompletedSetup |-> hasCompletedSetup]

\* segments[0]: the route groups of the Stack, and a screen outside them
RouteGroups == {"(auth)", "(setup)", "(tabs)", "modal"}

NoRedirect == "none"

\* mutant: the last branch looks at the auth group only
guardRedirect_authOnly(user, loading, group) ==
  IF loading THEN NoRedirect
  ELSE IF user = NoUser
  THEN IF group # "(auth)" /\ group # "(setup)" THEN "(setup)" ELSE NoRedirect
  ELSE IF ~user.hasCompletedSetup /\ group # "(setup)" THEN "(setup)"
  ELSE IF user.hasCompletedSetup /\ group = "(auth)" THEN "(tabs)"
  ELSE NoRedirect

\* the effect of RootLayoutNav: the group router.replace goes to, if any
guardRedirect(user, loading, group) ==
  IF loading THEN NoRedirect
  ELSE IF user = NoUser
  THEN IF group # "(auth)" /\ group # "(setup)" THEN "(setup)" ELSE NoRedirect
  ELSE IF ~user.hasCompletedSetup /\ group # "(setup)" THEN "(setup)"
  ELSE IF user.hasCompletedSetup /\ (group = "(auth)" \/ group = "(setup)")
  THEN "(tabs)"
  ELSE NoRedirect

\* a pending setTimeout callback; temp is the tempPreferences the signUp
\* closure holds, stale (history) tells that signOut ran after its creation
Timer(kind, temp) == [kind |-> kind, temp |-> temp, stale |-> FALSE]

\* the user the callback of a timer sets
timerUser(timer, prev) ==
  CASE timer.kind = "mount" -> prev
    [] timer.kind = "signIn" -> User("1", TRUE)
    [] timer.kind = "signUp" -> User("2", timer.temp)
    [] timer.kind = "completeSetup"
         -> IF prev # NoUser THEN [prev EXCEPT !.hasCompletedSetup = TRUE]
            ELSE NoUser

AuthStep(kind, timer) == [kind |-> kind, timer |-> timer]

InitAuth ==
  /\ authUser = NoUser
  /\ tempPreferences = FALSE
  /\ authLoading = TRUE
  /\ timers = <<Timer("mount", FALSE)>>
  /\ authCount = 0
  /\ segment \in RouteGroups
  /\ guardDue = TRUE
  /\ redirects = 0
  /\ lastAuthStep = AuthStep("none", Timer("none", FALSE))

\* a change of user, isLoading or segments makes the effect of the guard
\* run again
Rerender(user, loading, group) ==
  IF <<user, loading, group>> # <<authUser, authLoading, segment>>
  THEN guardDue' = TRUE /\ redirects' = 0
  ELSE UNCHANGED <<guardDue, redirects>>

\* signIn / signUp / completeSetup: setIsLoading(true); setTimeout(...)
StartTimer(kind) ==
  /\ authCount < MaxAuthCalls
  /\ authCount' = authCount + 1
  /\ kind \in {"signIn", "signUp", "completeSetup"}
  /\ authLoading' = TRUE
  /\ timers' = Append(timers, Timer(kind, tempPreferences))
  /\ Rerender(authUser, TRUE, segment)
  /\ lastAuthStep' = AuthStep(kind, Timer(kind, tempPreferences))
  /\ UNCHANGED <<authUser, tempPreferences, segment>>
  /\ UNCHANGED <<appVars, clientVars, provisionVars>>

\* the oldest timer fires
TimerFires ==
  /\ timers # << >>
  /\ LET timer == Head(timers)
     IN /\ authUser' = timerUser(timer, authUser)
        /\ tempPreferences' = IF timer.kind = "signUp" THEN FALSE
                              ELSE tempPreferences
        /\ authLoading' = FALSE
        /\ Rerender(timerUser(timer, authUser), FALSE, segment)
        /\ lastAuthStep' = AuthStep("timer", timer)
  /\ timers' = Tail(timers)
  /\ UNCHANGED <<authCount, segment>>
  /\ UNCHANGED <<appVars, clientVars, provisionVars>>

\* signOut: setUser(null); setTempPreferences(null)
SignOut ==
  /\ authCount < MaxAuthCalls
  /\ authCount' = authCount + 1
  /\ authUser' = NoUser
  /\ tempPreferences' = FALSE
  /\ timers' = [i \in 1..Len(timers) |-> [timers[i] EXCEPT !.stale = TRUE]]
  /\ Rerender(NoUser, authLoading, segment)
  /\ lastAuthStep' = AuthStep("signOut", Timer("none", FALSE))
  /\ UNCHANGED <<authLoading, segment>>
  /\ UNCHANGED <<appVars, clientVars, provisionVars>>

\* setPreferences(preferences): the setup screen stores the choices
SetPreferences ==
  /\ authCount < MaxAuthCalls
  /\ authCount' = authCount + 1
  /\ tempPreferences' = TRUE
  /\ lastAuthStep' = AuthStep("setPreferences", Timer("none", FALSE))
  /\ UNCHANGED <<authUser, authLoading, timers, segment, guardDue, redirects>>
  /\ UNCHANGED <<appVars, clientVars, provisionVars>>

\* the user moves to a screen of another group (a link, router.push)
Navigate(group) ==
  /\ authCount < MaxAuthCalls
  /\ authCount' = authCount + 1
  /\ group # segment
  /\ segment' = group
  /\ Rerender(authUser, authLoading, group)
  /\ lastAuthStep' = AuthStep("navigate", Timer("none", FALSE))
  /\ UNCHANGED <<authUser, tempPreferences, authLoading, timers>>
  /\ UNCHANGED <<appVars, clientVars, provisionVars>>

\* the effect of RootLayoutNav runs; a redirect changes segments, which
\* makes it run once more
GuardEffect ==
  /\ guardDue
  /\ LET target == guardRedirect(authUser, authLoading, segment)
     IN IF target = NoRedirect
        THEN /\ guardDue' = FALSE
             /\ UNCHANGED <<segment, redirects>>
        ELSE /\ segment' = target
             /\ redirects' = redirects + 1
             /\ UNCHANGED guardDue
  /\ lastAuthStep' = AuthStep("guard", Timer("none", FALSE))
  /\ UNCHANGED <<authUser, tempPreferences, authLoading, timers, authCount>>
  /\ UNCHANGED <<appVars, clientVars, provisionVars>>

NextAuth ==
  \/ \E kind \in {"signIn", "signUp", "completeSetup"} : StartTimer(kind)
  \/ TimerFires
  \/ SignOut
  \/ SetPreferences
  \/ \E group \in RouteGroups : Navigate(group)
  \/ GuardEffect

\* the parts outside the feed screen at rest
IdleClient == InitClient /\ userIdItem = NoData

IdleProvision == server = Provisioned /\ NoScriptRun

IdleAuth == InitAuth /\ segment = "(tabs)"

InitOuter == IdleClient /\ IdleProvision /\ IdleAuth

Init == InitVM /\ InitFeed /\ InitScreen /\ InitLedger /\ InitOuter

\* the video manager driven by arbitrary callers; no step of it reads the
\* mode or the storage, so one value of each is enough
InitManager == Init /\ isDemo /\ stored = NoData

SpecVM == InitManager /\ [][NextVM]_vars

\* the feed controller: mount, end-reached events, refresh, fetch outcomes
\* (only loadDemoReels reads the storage, so an API session starts from one
\* content of it)
InitSession == Init /\ (isDemo \/ stored = NoData)

SpecFeed == InitSession /\ [][NextFeed]_vars

\* the feed screen over a loaded feed: viewport events, taps, and the cells
\* FlatList mounts and unmounts
InitLoadedScreen ==
  InitVM /\ InitLoadedFeed /\ InitScreen /\ InitLedgerLoaded /\ InitOuter

SpecScreen == InitLoadedScreen /\ [][NextScreen]_vars

\* the local watch tracker over a loaded feed: the views of the list items
\* and direct callers of its functions, with storage operations that may fail
SpecLedger == InitLoadedScreen /\ [][NextLedger]_vars

\* a demo session: the list loops at its end, cells are viewed, the tracker
\* is read
NextWatching ==
  \/ EndReachedDemo
  \/ \E id \in Ids(feedData) : HandleReelView(id)
  \/ GetWatchedCountCall
  \/ \E success \in BOOLEAN : ServeGetItem(success)
  \/ \E success \in BOOLEAN : ServeSetItem(success)

InitWatching == InitLoadedScreen /\ isDemo

SpecWatching == InitWatching /\ [][NextWatching]_vars

\* the feed screen at rest
IdleApp == InitVM /\ InitFeed /\ InitScreen /\ InitLedger /\ isDemo
           /\ stored = NoData

\* the API client driven by arbitrary callers, over a network and a storage
\* that may fail
InitApiClient == IdleApp /\ InitClient /\ IdleProvision /\ IdleAuth

SpecClient == InitApiClient /\ [][NextClient]_vars

\* a request that is pending settles
Settle ==
  \E r \in pending :
    \/ \E success \in BOOLEAN : DemoLoaded(r, success)
    \/ \E t \in Totals : ApiInitialLoaded(r, t)
    \/ ApiInitialFailed(r)
    \/ \E t \in Totals : ApiMoreLoaded(r, t)
    \/ ApiMoreFailed(r)
    \/ \E success \in BOOLEAN : LateDemoLoaded(r, success)
    \/ \E t \in Totals : LateApiInitialLoaded(r, t)
    \/ LateApiInitialFailed(r)
    \/ \E t \in Totals : LateApiMoreLoaded(r, t)
    \/ LateApiMoreFailed(r)

\* the feed controller where React runs the mount effect and every promise
\* of fetchReels and of AsyncStorage settles
SpecFeedLive ==
  InitSession /\ [][NextFeed]_vars /\ WF_vars(MountEffect) /\ WF_vars(Settle)

\* the provisioning scripts run one after another against one server
InitServer == IdleApp /\ IdleClient /\ InitProvision /\ IdleAuth

SpecProvision == InitServer /\ [][NextProvision]_vars

\* the auth provider and the navigation guard under arbitrary callers
InitRootLayout == IdleApp /\ IdleClient /\ IdleProvision /\ InitAuth

SpecAuth == InitRootLayout /\ [][NextAuth]_vars

(***************************************************************************)
(* Properties of the video manager.                                        *)
(***************************************************************************)
Audible == {p \in Players : playing[p] /\ ~muted[p]}

\* C2: whatever calls are made on the video manager, at most one player is
\* unmuted and playing in every reachable state.
C2_AtMostOneAudible == Cardinality(Audible) <= 1

C1_OnlyCurrentCellAudible ==
  /\ Cardinality(Audible) <= 1
  /\ \A p \in Audible : currentIndex \in Cells /\ cellPlayer[currentIndex] = p

\* the viewport moved to another index whose cell now plays with sound,
\* while the cell it left is still mounted
C1_Witness ==
  /\ currentIndex > 0
  /\ cellPlayer[currentIndex] \in Audible
  /\ cellPlayer[0] # NoPlayer
  /\ activePlayer = cellPlayer[currentIndex]

(***************************************************************************)
(* Properties of the feed controller.                                      *)
(***************************************************************************)
\* the items a step appended to the feed list
Appended(old, new) == SubSeq(new, Len(old) + 1, Len(new))

IsPrefix(old, new) ==
  Len(old) <= Len(new) /\ SubSeq(new, 1, Len(old)) = old

LoopKinds == {"demoLoop", "moreEmpty", "moreFail"}

\* C3: no two items of the feed list have the same id, in every reachable
\* state of the feed controller.
C3_FeedIdsUnique ==
  \A i, j \in 1..Len(feedData) : i # j => feedData[i].id # feedData[j].id

\* C4: each loop step appends the stored catalog allReels in its original
\* order, under ids that were never placed in the feed list before, and the
\* loop counter only grows (by one at each loop step, never reset).
C4_LoopAppendsFreshCatalog ==
  [][/\ loopCounter' >= loopCounter
     /\ (lastStep'.kind \in LoopKinds /\ Len(allReels) > 0) =>
          /\ loopCounter' = loopCounter + 1
          /\ IsPrefix(feedData, feedData')
          /\ LET new == Appended(feedData, feedData')
             IN /\ Len(new) = Len(allReels)
                /\ \A k \in 1..Len(new) : new[k].reel = allReels[k].reel
                /\ \A k \in 1..Len(new) : new[k].id \notin issued
                /\ \A k, m \in 1..Len(new) : k # m => new[k].id # new[m].id]_vars

\* a second loop step has just re-appended the catalog
C4_Witness ==
  /\ lastStep.kind \in LoopKinds
  /\ loopCounter >= 2
  /\ Len(allReels) > 0
  /\ Len(feedData) >= 3 * Len(allReels)

\* C5: every load-more request carries an offset equal to the number of
\* reels the earlier successful fetches returned since the last initial load.
C5_OffsetIsCursor ==
  \A r \in pending : r.kind = "more" => r.offset = r.cursor

\* C6 as claimed: in API mode hasMore is true exactly while the cursor is
\* below the backend total, also after a load-more fetch; in demo mode it
\* stays true.
C6_HasMoreTracksCursor ==
  /\ [][lastStep'.kind \in {"initPage", "morePage"}
          => (hasMore' <=> offset' < lastStep'.total)]_vars
  /\ [](isDemo => hasMore)

\* C6 amended: the cursor decides hasMore only at an initial fetch (true
\* exactly when the n reels returned are fewer than the total, false after
\* an empty page); every load-more fetch that returns sets hasMore to true
\* whatever the cursor; in demo mode hasMore stays true.
C6_HasMoreAtInitialOnly ==
  /\ [][/\ lastStep'.kind = "initPage"
             => (hasMore' <=> lastStep'.count < lastStep'.total)
        /\ lastStep'.kind = "initEmpty" => ~hasMore'
        /\ lastStep'.kind \in {"morePage", "moreEmpty"} => hasMore']_vars
  /\ [](isDemo => hasMore)

\* a load-more page has brought the cursor to the total and hasMore is true
C6_Witness ==
  /\ ~isDemo
  /\ lastStep.kind = "morePage"
  /\ offset >= lastStep.total
  /\ hasMore

\* C7 as claimed: an empty initial page gives the empty state, and a loop
\* step is taken only with a non-empty catalog on an exhausted (empty) page.
C7_LoopOnlyOnExhaustedPage ==
  [][/\ lastStep'.kind = "initEmpty"
          => (feedData' = << >> /\ isCaughtUp' /\ ~hasMore')
     /\ (~isDemo /\ loopCounter' # loopCounter)
          => (lastStep'.kind \in {"moreEmpty", "lateMoreEmpty"}
              /\ Len(allReels) > 0)]_vars

\* C7 amended: an empty initial page gives the empty state (empty list,
\* isCaughtUp, not hasMore); no end-reached event is taken while the list is
\* empty; a loop step is taken only with a non-empty catalog, on an
\* exhausted page or on a failed load-more fetch.
C7_EmptyPageDoesNotLoop ==
  [][/\ lastStep'.kind = "initEmpty"
          => (feedData' = << >> /\ isCaughtUp' /\ ~hasMore')
     /\ lastStep'.kind \in {"endReached", "endReachedBusy", "demoLoop"}
          => Len(feedData) > 0
     /\ (~isDemo /\ loopCounter' # loopCounter)
          => (lastStep'.kind \in {"moreEmpty", "moreFail",
                                  "lateMoreEmpty", "lateMoreFail"}
              /\ Len(allReels) > 0)]_vars

\* the first initial fetch returned an empty page: the empty screen, no loop
C7_Witness ==
  /\ lastStep.kind = "initEmpty"
  /\ feedData = << >> /\ isCaughtUp /\ ~hasMore
  /\ screenView = "empty"
  /\ loopCounter = 0

\* C8: after a failed initial API fetch the feed list is exactly PAGE_SIZE
\* placeholder items, an error message is recorded, hasMore is true,
\* isLoading is false, and the screen shows the list.
C8_FallbackPlaceholders ==
  lastStep.kind = "initFail" =>
    /\ Len(feedData) = PAGE_SIZE
    /\ \A k \in 1..Len(feedData) :
         /\ feedData[k].reel[1] = "placeholder"
         /\ feedData[k].id = toString(k - 1)
    /\ error = "Failed to load reels"
    /\ hasMore
    /\ ~isLoading
    /\ screenView = "list"

\* a refresh failed after a page of API reels was shown
C8_Witness ==
  /\ lastStep.kind = "initFail"
  /\ Len(allReels) > 0
  /\ feedData # allReels

\* C9: a load-more fetch that fails while the feed list is non-empty
\* extends the feed list.
C9_FailureExtendsList ==
  [][(lastStep'.kind = "moreFail" /\ Len(feedData) > 0)
       => Len(feedData') > Len(feedData)]_vars

(***************************************************************************)
(* Properties of the operations of the video manager.                      *)
(***************************************************************************)
\* the binding is cleared
Cleared(p, id) == p = NoPlayer /\ id = NoId

C12_ClearsOnlyActivePlayer ==
  [][lastCall'.op = "deactivatePlayer" =>
       /\ ~released[lastCall'.player]
            => (~playing'[lastCall'.player] /\ muted'[lastCall'.player])
       /\ IF lastCall'.player = activePlayer
          THEN Cleared(activePlayer', activeItemId')
          ELSE /\ UNCHANGED <<activePlayer, activeItemId>>
               /\ activePlayer # NoPlayer
                    => /\ playing'[activePlayer] = playing[activePlayer]
                       /\ muted'[activePlayer] = muted[activePlayer]]_vars

\* C13: no operation of the video manager throws when a control of a
\* released player fails, and the binding change of the operation (the new
\* pair of setActivePlayer, the clearing of deactivatePlayer with the active
\* id and of stopAll) is applied also when the control fails.
C13_NoThrowBindingApplied ==
  /\ [](~raised)
  /\ [][/\ (lastCall'.op = "setActivePlayer" /\ lastCall'.itemId # activeItemId)
             => (activePlayer' = lastCall'.player
                 /\ activeItemId' = lastCall'.itemId)
        /\ (lastCall'.op = "deactivatePlayer" /\ lastCall'.itemId = activeItemId)
             => Cleared(activePlayer', activeItemId')
        /\ lastCall'.op = "stopAll"
             => Cleared(activePlayer', activeItemId')]_vars

\* setActivePlayer has just replaced the binding of a released player: the
\* control of the previous player failed, nothing was thrown and the new
\* pair is active
C13_Witness ==
  /\ lastCall.op = "setActivePlayer"
  /\ lastCall.wasActivePlayer \notin {NoPlayer, lastCall.player}
  /\ released[lastCall.wasActivePlayer]
  /\ activePlayer = lastCall.player
  /\ activeItemId = lastCall.itemId
  /\ ~raised

(***************************************************************************)
(* Properties of the local watch tracker.                                  *)
(***************************************************************************)
\* the watched set a read of the stored item gives
persistedIds(item) == getWatchedReelIds(Response(TRUE, item)).value

\* the step completes a tracker call
CompletesCall == Len(storageQueue') < Len(storageQueue)

\* C14: markReelAsWatched is idempotent: when a call for an id completes
\* right after a call for the same id, each alone in flight from its start
\* to its end and no storage operation of either failing, the second call
\* leaves the stored item, the watched set read from it and getWatchedCount
\* as the first call left them.
C14_MarkTwiceIsIdempotent ==
  [][(/\ CompletesCall
      /\ lastReturn'.op = "markReelAsWatched"
      /\ lastReturn'.alone /\ ~lastReturn'.failed
      /\ lastReturn.op = "markReelAsWatched"
      /\ lastReturn.reelId = lastReturn'.reelId
      /\ ~lastReturn.failed)
       => /\ stored' = stored
          /\ persistedIds(stored') = persistedIds(stored)
          /\ getWatchedCount(Response(TRUE, stored')).value
               = getWatchedCount(Response(TRUE, stored)).value
          /\ has(persistedIds(stored'), lastReturn'.reelId)]_vars

\* a second markReelAsWatched of an id has completed right after the first,
\* neither failing, and the id is in the stored set
C14_Witness ==
  /\ lastReturn.op = "markReelAsWatched"
  /\ lastReturn.alone /\ ~lastReturn.failed
  /\ lastReturn.prev.op = "markReelAsWatched"
  /\ lastReturn.prev.reelId = lastReturn.reelId
  /\ ~lastReturn.prev.failed
  /\ has(persistedIds(stored), lastReturn.reelId)

\* C15: as long as no storage operation has failed and clearWatchHistory
\* has not run, the id of every completed markReelAsWatched call is in the
\* stored watched set, whatever the interleaving of the calls.
C15_CompletedMarksPersist ==
  pristine => \A id \in marked : has(persistedIds(stored), id)

\* C16: a tracker call in which a storage operation failed raises nothing
\* and gives the answer of an empty set: getWatchedReelIds the empty set,
\* isReelWatched false, getWatchedCount 0; markReelAsWatched and
\* clearWatchHistory complete without raising.
C16_FailureDegradesToEmpty ==
  /\ [](~lastReturn.threw)
  /\ [][(CompletesCall /\ lastReturn'.failed) =>
          /\ ~lastReturn'.threw
          /\ lastReturn'.op = "getWatchedReelIds" => lastReturn'.value = << >>
          /\ lastReturn'.op = "isReelWatched" => lastReturn'.value = FALSE
          /\ lastReturn'.op = "getWatchedCount" => lastReturn'.value = 0]_vars

\* isReelWatched has answered false for an id of the stored set because its
\* read of the storage failed
C16_Witness ==
  /\ lastReturn.op = "isReelWatched"
  /\ lastReturn.failed
  /\ ~lastReturn.threw
  /\ has(persistedIds(stored), lastReturn.reelId)
  /\ lastReturn.value = FALSE

(***************************************************************************)
(* Properties of the viewport events.                                      *)
(***************************************************************************)
\* C18: currentIndex is the index of the first viewable item of the most
\* recent viewport event that had a first item with a non-null index; an
\* event with an empty list or a null first index leaves currentIndex as
\* it was.
C18_IndexFollowsLatestEvent ==
  /\ [](latestIndex # NoIndex => currentIndex = latestIndex)
  /\ [][lastViewable'.kind \in {"none", "null"}
          => currentIndex' = currentIndex]_vars

\* an event moved the viewport to a later item whose cell now plays, and an
\* event with a null first index followed
C18_Witness ==
  /\ lastViewable.kind = "null"
  /\ latestIndex > 0
  /\ currentIndex = latestIndex
  /\ cellPlayer[currentIndex] # NoPlayer
  /\ playing[cellPlayer[currentIndex]]

(***************************************************************************)
(* Properties of the feed list.                                            *)
(***************************************************************************)
\* the list of the demo catalog, which no tracker state enters
DemoCatalog == transformDemoReelsToFeedItems(getDemoReels, 0)

\* the step settles a request of an initial load (of the mount or a refresh)
SettlesInitialLoad ==
  \E r \in pending \ pending' : r.kind \in {"initial", "ledger"}

\* C17: in demo mode every step gives a feed list that is a function of the
\* step and of the list, the catalog and the loop counter before it, and of
\* nothing the watched ledger holds (the stored item, watchedIdsRef): an
\* initial load gives the demo catalog, a loop step appends the catalog
\* re-keyed, any other step leaves the list.  So any two ledger contents
\* give the same list for the same steps.
C17_DemoFeedIgnoresLedger ==
  [][isDemo =>
       /\ feedData' = IF hookUnmounted THEN feedData
                      ELSE IF SettlesInitialLoad THEN DemoCatalog
                      ELSE IF loopCounter' # loopCounter
                      THEN feedData \o loopedItems(feedData, allReels,
                                                   loopCounter + 1)
                      ELSE feedData
       /\ allReels' = IF SettlesInitialLoad THEN DemoCatalog ELSE allReels
       /\ loopCounter' \in {loopCounter, loopCounter + 1}]_vars

\* the demo list was loaded while the ledger held one of its ids
C17_Witness ==
  /\ isDemo
  /\ lastStep.kind = "demoLoaded"
  /\ feedData = DemoCatalog
  /\ has(watchedIdsRef, feedData[1].id)
  /\ has(persistedIds(stored), feedData[1].id)

\* C19: a feed fetch that settles after the unmount changes neither the
\* feed list, nor the cursor, nor the flags, nor the stored catalog.
C19_LateResolutionChangesNothing ==
  [][(hookUnmounted /\ pending' # pending)
       => UNCHANGED <<feedData, offset, isLoading, hasMore, isCaughtUp, error,
                      isLoadingMore, allReels>>]_vars

\* C20 as claimed: in every step of the feed controller the previous feed
\* list is a prefix of the new one.
C20_FeedOnlyGrows == [][IsPrefix(feedData, feedData')]_vars

\* C20 amended: in every step other than the settling of an initial load
\* the previous feed list is a prefix of the new one; the settling of an
\* initial load (of the mount or of a refresh) replaces the list by what
\* that load gives: the first page or the demo catalog (the stored
\* catalog), the placeholders, or the empty list.
C20_GrowsBetweenLoads ==
  [][IF SettlesInitialLoad /\ ~hookUnmounted
     THEN feedData' \in {<< >>, allReels',
                         generateInfiniteFeedData(0, PAGE_SIZE)}
     ELSE IsPrefix(feedData, feedData')]_vars

\* the page of a refresh has replaced a list that held other items
C20_Witness ==
  /\ lastStep.kind = "initPage"
  /\ feedData = allReels
  /\ \E id \in issued : id \notin Ids(feedData)

(***************************************************************************)
(* The API client.                                                         *)
(***************************************************************************)
\* the request of the call that the last step settled got no 2xx response
\* with a JSON body
RequestFailed(net) ==
  ~net.arrived \/ ~responseOk(net.status) \/ net.body.kind = "text"

SettlesApi(functions) ==
  lastApiStep'.kind = "settled" /\ lastApiStep'.function \in functions

\* C21: the cached user id changes only when a login or signup whose request
\* succeeded writes the id of the returned user, or when logout or a
\* deleteAccount whose request succeeded removes it; a logout or deletion
\* that returns normally leaves no id, and a login, signup or deletion whose
\* request failed leaves the item as it was.
C21_CachedIdFollowsSession ==
  [][/\ userIdItem' # userIdItem =>
          /\ lastApiStep'.kind = "settled" /\ ~lastApiStep'.rejected
          /\ \/ /\ lastApiStep'.function \in {"login", "signup"}
                /\ ~RequestFailed(lastApiStep'.net)
                /\ userIdItem' = toString(lastApiStep'.net.body.id)
             \/ /\ lastApiStep'.function = "logout"
                /\ userIdItem' = NoData
             \/ /\ lastApiStep'.function = "deleteAccount"
                /\ ~RequestFailed(lastApiStep'.net)
                /\ userIdItem' = NoData
     /\ SettlesApi({"login", "signup"}) /\ ~lastApiStep'.rejected
          => userIdItem' = toString(lastApiStep'.net.body.id)
     /\ SettlesApi({"logout", "deleteAccount"}) /\ ~lastApiStep'.rejected
          => userIdItem' = NoData
     /\ SettlesApi({"login", "signup", "deleteAccount"})
        /\ RequestFailed(lastApiStep'.net)
          => lastApiStep'.rejected /\ userIdItem' = userIdItem]_vars

\* a deletion whose request was refused has settled, and the id that an
\* earlier login cached is still there
C21_Witness ==
  /\ lastApiStep.kind = "settled"
  /\ lastApiStep.function = "deleteAccount"
  /\ lastApiStep.net.arrived /\ lastApiStep.net.status = 401
  /\ lastApiStep.rejected
  /\ userIdItem = toString(2)

\* C22: a request that fails rejects with an ApiError: with the response's
\* status and the body's detail (or the default message) when a response
\* outside 200..299 arrived, with status 0 when fetch failed, and never with
\* an error of another type.
C22_FailedRequestRejectsWithApiError ==
  (/\ lastApiStep.kind = "settled"
   /\ lastApiStep.function \in RequestFunctions
   /\ RequestFailed(lastApiStep.net))
  => /\ lastApiStep.rejected
     /\ lastApiStep.error.type = "ApiError"
     /\ ~lastApiStep.net.arrived => lastApiStep.error.statusCode = 0
     /\ (lastApiStep.net.arrived /\ ~responseOk(lastApiStep.net.status))
          => /\ lastApiStep.error.statusCode = lastApiStep.net.status
             /\ lastApiStep.error.message =
                  IF lastApiStep.net.body.detail # NoDetail
                  THEN lastApiStep.net.body.detail
                  ELSE defaultMessage(lastApiStep.net.status)

(***************************************************************************)
(* The provisioning scripts.                                               *)
(***************************************************************************)
\* C23: a run of a script that has provisioned the server before ends with
\* exit status 0 and leaves the server as one run leaves it: database
\* present, role dev_user with password dev_pw, database and schema
\* privileges granted.
C23_RerunChangesNothing ==
  [][(run # NoRun /\ run' = NoRun /\ ~run.first)
       => /\ lastExit' = 0
          /\ server' = Provisioned
          /\ server' = server]_vars

\* the batch script has finished a run on a server it had provisioned
\* before
C23_Witness ==
  /\ run = NoRun
  /\ runCount = MaxRuns
  /\ provisionedBy = {"windows.bat"}
  /\ lastRun.script = "windows.bat" /\ ~lastRun.first
  /\ lastExit = 0

(***************************************************************************)
(* Loads in flight.                                                        *)
(***************************************************************************)
MorePending == {r \in pending : r.kind = "more"}

\* C24: in API mode at most one load-more request is in flight; a load-more
\* request is issued only when none is pending, and an end-reached event
\* that finds one pending issues nothing and changes no controller state.
C24_OneLoadMoreInFlight ==
  /\ [](Cardinality(MorePending) <= 1)
  /\ [][/\ (\E r \in pending' \ pending : r.kind = "more") => MorePending = {}
        /\ (lastStep'.kind = "endReachedBusy" /\ lastStep # lastStep')
             => /\ MorePending # {}
                /\ UNCHANGED <<currentIndex, feedData, isLoading, hasMore,
                               isCaughtUp, error, offset, isLoadingMore,
                               allReels, loopCounter, pending, reqCount>>]_vars

\* an end-reached event has arrived while a load-more fetch was pending
C24_Witness ==
  /\ lastStep.kind = "endReachedBusy"
  /\ MorePending # {}
  /\ ~isDemo /\ Len(feedData) > 0

InitialSettled == {"demoLoaded", "initPage", "initEmpty", "initFail"}
MoreSettled ==
  {"morePage", "moreEmpty", "moreFail", "lateMorePage", "lateMoreEmpty",
   "lateMoreFail"}

\* C25: every load releases its flag.  The step in which an initial load
\* settles (with items, with an empty page, with a failure) leaves isLoading
\* false, and the step in which a load-more settles leaves the in-flight
\* flag clear; a mounted controller that is loading eventually is not, and
\* a set in-flight flag is eventually cleared.
C25_LoadingFlagsReleased ==
  /\ [][/\ (lastStep'.kind \in InitialSettled /\ pending' # pending)
             => ~isLoading'
        /\ (lastStep'.kind \in MoreSettled /\ pending' # pending)
             => ~isLoadingMore']_vars
  /\ ((isLoading /\ ~hookUnmounted) ~> (~isLoading \/ hookUnmounted))
  /\ (isLoadingMore ~> ~isLoadingMore)

\* a load-more that failed has released the flag, and the initial load
\* before it has released isLoading
C25_Witness ==
  /\ lastStep.kind = "moreFail"
  /\ ~isLoadingMore /\ ~isLoading
  /\ pending = {}

\* C26: the result of a load-more fetch that was in flight when refresh was
\* called is discarded: when such a fetch settles (here: while the initial
\* load of the refresh, issued after it, is still in flight), neither the
\* feed list nor the catalog changes.
C26_RefreshDiscardsInFlightLoadMore ==
  [][\A r \in pending \ pending' :
       (/\ r.kind = "more"
        /\ \E q \in pending : q.kind = "initial" /\ q.id > r.id
        /\ ~hookUnmounted)
         => feedData' = feedData /\ allReels' = allReels]_vars

\* C27: a storage failure during markReelAsWatched removes nothing: when a
\* call in which a read or a write failed changes the stored item, every id
\* that was in the stored set is still in it (stated for a call that no
\* other call overlaps).
C27_FailureKeepsEarlierIds ==
  [][(/\ storageQueue # << >>
      /\ Head(storageQueue).op = "markReelAsWatched"
      /\ Head(storageQueue).alone
      /\ Head(storageQueue).failed
      /\ Len(storageQueue') < Len(storageQueue))
       => \A i \in 1..Len(persistedIds(stored)) :
            has(persistedIds(stored'), persistedIds(stored)[i])]_vars

(***************************************************************************)
(* The watched ledger of a demo session.                                   *)
(***************************************************************************)
\* C30: in demo mode the watched ledger holds only ids of the demo catalog,
\* and neither the stored set nor a watched count that is reported exceeds
\* the number of demo reels.
C30_LedgerHoldsCatalogIdsOnly ==
  isDemo =>
    /\ \A i \in 1..Len(persistedIds(stored)) :
         persistedIds(stored)[i] \in Ids(DemoCatalog)
    /\ Len(persistedIds(stored)) <= Len(getDemoReels)
    /\ lastReturn.op = "getWatchedCount"
         => lastReturn.value <= Len(getDemoReels)

\* C28: after signOut the user stays null until a new signIn or signUp is
\* started: a timer of signIn, signUp or completeSetup that was pending when
\* signOut ran leaves the user as it is when it fires.
C28_TimersPendingAtSignOutSetNoUser ==
  [][(/\ timers # << >>
      /\ Head(timers).stale
      /\ timers' = Tail(timers)) => authUser' = authUser]_vars

\* the group the navigator shows fits the signed-in state
GroupMatches(user, group) ==
  IF user = NoUser THEN group \in {"(auth)", "(setup)"}
  ELSE IF ~user.hasCompletedSetup THEN group = "(setup)"
  ELSE group \notin {"(auth)", "(setup)"}

\* C29: while authentication is not loading the navigation guard redirects at
\* most once after a change of user, loading flag or route, and once it has
\* settled the route group fits the user: no user - auth or setup group; a
\* user without completed setup - setup group; a user with completed setup -
\* neither of the two.
C29_GuardSettlesAfterOneRedirect ==
  /\ redirects <= 1
  /\ (~authLoading /\ ~guardDue) => GroupMatches(authUser, segment)

C29_Witness ==
  /\ redirects = 1
  /\ ~guardDue
  /\ ~authLoading
  /\ authUser # NoUser
  /\ authUser.hasCompletedSetup
  /\ segment = "(tabs)"
  /\ lastAuthStep.kind = "guard"

=============================================================================
